---------------------------- MODULE Spec2Model ----------------------------
(***************************************************************************)
(* Conversation store, turn orchestration and MCP provider reconciliation *)
(* of the Omni chat UI (ui/src).                                           *)
(*                                                                         *)
(* Strings the code inspects character by character (trim, slice,          *)
(* includes) are sequences of one-character strings.  Optional fields      *)
(* (undefined in the source) are sequences of length at most one:          *)
(* <<>> is undefined, <<v>> is the value v.                                *)
(***************************************************************************)
EXTENDS Integers, Sequences, FiniteSets, TLC

VARIABLES
    lsChats,        \* localStorage['omni_chat_history'] (storage.ts:27)
    everSaved,      \* history: id -> updatedAt of the last saveChat of that id
    monotone,       \* history: every saveChat so far carried an updatedAt >= all before
    nSaves,         \* history: number of direct storage.saveChat calls
    now,            \* the wall clock read by Date.now()
    nextChatId,     \* source of fresh ids for storage.generateChatId
    chats,          \* useChatHistory: const [chats, setChats]
    currentChatId,  \* useChatHistory: const [currentChatId, setCurrentChatId]
    nCalls,         \* history: number of hook operations called so far
    isLoading,      \* ChatContainer: const [isLoading, setIsLoading]
    serverStatus,   \* ChatContainer: const [serverStatus, setServerStatus]
    audioOutputEnabled,  \* ChatContainer: const [audioOutputEnabled, ...]
    toolCallingEnabled,  \* ChatContainer: const [toolCallingEnabled, ...]
    pc,             \* where the handleSend in flight is suspended
    turn,           \* the locals of the handleSend in flight
    request,        \* the request handed to apiService.sendMessage
    reply,          \* the settled result of the backend call, not yet handled
    nTurns,         \* history: number of turns submitted so far
    lsMcp,          \* localStorage['omni_mcp_servers'] (storage.ts:97)
    servers,        \* MCPServerManager: const [servers, setServers]
    mcpError,       \* MCPServerManager: const [error, setError]
    sync,           \* the locals of the syncServersWithBackend in flight
    backend,        \* the backend's list of MCP servers (GET /v1/mcp/servers)
    backendUp,      \* the backend answers requests
    reachable,      \* ids of the MCP servers the backend can connect to
    quiet,          \* history: nobody else acted since the last sync run began
    afterSync,      \* history: store and statuses the last undisturbed sync run left
    nSyncs,         \* history: number of sync runs started
    nChanges,       \* history: number of changes made beside the sync runs
    events,         \* the CustomEvents dispatched on window so far, in order
    timers,         \* server ids of the pending setTimeout callbacks (500 ms)
    nLoadTools,     \* history: number of loadTools runs the events started
    mode,           \* ChatContainer: const [mode, setMode]
    isRecording,    \* useVoiceRecorder: const [isRecording, setIsRecording]
    audioBlob,      \* useVoiceRecorder: a recording is held (audioBlob is not null)
    stopping,       \* MediaRecorder.stop() was called, onstop is still to run
    starting,       \* startRecording awaits getUserMedia
    outcome,        \* how the last direct storage call ended
    availableTools, \* ChatContainer: const [availableTools, setAvailableTools]
    toolsLoading,   \* ChatContainer: const [toolsLoading, setToolsLoading]
    toolsError,     \* ChatContainer: const [toolsError, setToolsError]
    loads,          \* the loadTools runs in flight: start number and settled reply
    nRefresh,       \* history: number of loadTools runs started
    toolsFrom,      \* history: the run whose completion last set availableTools
    lastPlayedMessageId,  \* ChatContainer: lastPlayedMessageId.current
    played,         \* history: the messages handed to playAudioResponse, in order
    storageEvents,  \* storage events of other contexts' writes not yet handled
    lastOp          \* history: the last change made beside the sync runs

ghostVars == <<everSaved, monotone, nSaves>>
hookVars  == <<now, nextChatId, chats, currentChatId, nCalls>>
turnVars  == <<isLoading, serverStatus, audioOutputEnabled, toolCallingEnabled,
               pc, turn, request, reply, nTurns>>
mcpVars   == <<lsMcp, servers, mcpError, sync, backend, backendUp, reachable,
               quiet, afterSync, nSyncs, nChanges>>
busVars   == <<events, timers, nLoadTools>>
voiceVars == <<mode, isRecording, audioBlob, stopping, starting>>
toolVars  == <<availableTools, toolsLoading, toolsError, loads, nRefresh, toolsFrom>>
playVars  == <<lastPlayedMessageId, played>>
tabVars   == <<storageEvents>>
chatVars  == <<lsChats, ghostVars, hookVars, turnVars, voiceVars, outcome,
               toolVars, playVars, tabVars>>
outsideHook == <<ghostVars, turnVars, mcpVars, busVars, toolVars, playVars, tabVars,
                 voiceVars, outcome, lastOp>>
outsideTurn == <<ghostVars, mcpVars, busVars, toolVars, playVars, tabVars, voiceVars,
                 outcome, lastOp>>
outsideMcp == <<chatVars, busVars>>
vars      == <<lsChats, ghostVars, hookVars, turnVars, mcpVars, busVars,
               toolVars, playVars, tabVars, voiceVars, outcome, lastOp>>

---------------------------------------------------------------------------
(* Bounds of the model *)

MaxSaves == 3      \* direct storage.saveChat calls explored
InitChats == 49    \* chats already in the store when the storage run starts
MaxTime == 1       \* last clock value the runs reach
MaxNewChats == 2   \* chats created in a run
MaxCalls == 4      \* hook operations called in a repository run
MaxTurns == 1      \* turns submitted in a turn run
MaxClicks == 1     \* other user actions (new chat, delete, toggles) in a turn run
MaxSyncs == 2      \* sync runs started in a provider run
MaxChanges == 2    \* changes made beside the sync runs in a provider run
MaxRefresh == 3    \* loadTools runs started in a tool catalog run
MaxPlays == 2      \* calls of playAudioResponse in an auto-play run

---------------------------------------------------------------------------
(* Strings *)

None == <<>>
Some(v) == <<v>>

IsWhitespace(c) == c \in {" ", "\t", "\n"}

RECURSIVE TrimStart(_)
TrimStart(s) ==
    IF s # <<>> /\ IsWhitespace(Head(s)) THEN TrimStart(Tail(s)) ELSE s

RECURSIVE TrimEnd(_)
TrimEnd(s) ==
    IF s # <<>> /\ IsWhitespace(s[Len(s)])
    THEN TrimEnd(SubSeq(s, 1, Len(s) - 1))
    ELSE s

\* String.prototype.trim
Trim(s) == TrimEnd(TrimStart(s))

\* String.prototype.slice(0, n)
Slice0(s, n) == SubSeq(s, 1, IF Len(s) < n THEN Len(s) ELSE n)

\* String.prototype.includes
Includes(s, sub) ==
    \E i \in 0..(Len(s) - Len(sub)) : SubSeq(s, i + 1, i + Len(sub)) = sub

NewChatTitle == <<"N","e","w"," ","C","h","a","t">>

---------------------------------------------------------------------------
(* storage.ts: the chat repository over localStorage *)

MAX_CHATS == 50

\* JSON.stringify of a chat list, as stored under STORAGE_KEY
Stringify(list) == [kind |-> "json", val |-> list]

MissingItem == [kind |-> "missing", val |-> <<>>]

\* a stored text JSON.parse rejects
UnparseableItem == [kind |-> "unparseable", val |-> <<>>]

\* a stored text JSON.parse turns into a value that is no array, as {} or null
NotListItem == [kind |-> "notlist", val |-> <<>>]

\* what JSON.parse gives for NotListItem: a value without any array method
NotAList == [notAList |-> TRUE]

\* storage.getChats: [] when nothing is stored or the parse throws, else the
\* parsed value as it is
getChats(item) ==
    IF item.kind = "json" THEN item.val
    ELSE IF item.kind = "notlist" THEN NotAList
    ELSE <<>>

\* Array.isArray(storage.getChats())
ReadsList(item) == item.kind # "notlist"

\* Array.prototype.findIndex(c => c.id === id), 0 when absent (the source's -1)
FindIndex(list, id) ==
    IF \E i \in 1..Len(list) : list[i].id = id
    THEN CHOOSE i \in 1..Len(list) :
            /\ list[i].id = id
            /\ \A j \in 1..(i - 1) : list[j].id # id
    ELSE 0

\* insert c into a list already sorted by descending updatedAt, after its equals
InsertDesc(c, sorted) ==
    LET k == Cardinality({i \in 1..Len(sorted) :
                            sorted[i].updatedAt >= c.updatedAt})
    IN SubSeq(sorted, 1, k) \o <<c>> \o SubSeq(sorted, k + 1, Len(sorted))

\* first argument ascending: the order a mistaken comparator would give
InsertAsc(c, sorted) ==
    LET k == Cardinality({i \in 1..Len(sorted) :
                            sorted[i].updatedAt <= c.updatedAt})
    IN SubSeq(sorted, 1, k) \o <<c>> \o SubSeq(sorted, k + 1, Len(sorted))

RECURSIVE SortAscFrom(_, _)
SortAscFrom(list, acc) ==
    IF list = <<>> THEN acc
    ELSE LET next == InsertAsc(Head(list), acc)
         IN IF Len(next) > 0 THEN SortAscFrom(Tail(list), next) ELSE next

SortByUpdatedAtAsc(list) == SortAscFrom(list, <<>>)

RECURSIVE SortDescFrom(_, _)
SortDescFrom(list, acc) ==
    IF list = <<>> THEN acc
    ELSE LET next == InsertDesc(Head(list), acc)
         IN IF Len(next) > 0 THEN SortDescFrom(Tail(list), next) ELSE next

\* chats.sort((a, b) => b.updatedAt - a.updatedAt): stable, descending
SortByUpdatedAtDesc(list) == SortDescFrom(list, <<>>)

\* Array.prototype.slice(0, n)
Limit(list, n) == SubSeq(list, 1, IF Len(list) < n THEN Len(list) ELSE n)

\* storage.saveChat: the value written under STORAGE_KEY
\* first argument keeps the stored chat when the id is already there
saveChatKeepsStored(item, chat) ==
    LET list    == getChats(item)
        index   == IF ReadsList(item) THEN FindIndex(list, chat.id) ELSE 0
        upsert  == IF index >= 1
                   THEN list
                   ELSE <<chat>> \o list
        sorted  == SortByUpdatedAtDesc(upsert)
        limited == Limit(sorted, MAX_CHATS)
    IN IF ReadsList(item) THEN Stringify(limited) ELSE item

saveChat(item, chat) ==
    LET list    == getChats(item)
        index   == IF ReadsList(item) THEN FindIndex(list, chat.id) ELSE 0
        upsert  == IF index >= 1
                   THEN [list EXCEPT ![index] = chat]
                   ELSE <<chat>> \o list
        sorted  == SortByUpdatedAtDesc(upsert)
        limited == Limit(sorted, MAX_CHATS)
    IN IF ReadsList(item) THEN Stringify(limited) ELSE item

\* storage.getChat has no try: chats.find on a value that is no array throws
getChatThrows(item) == ~ReadsList(item)

\* storage.getChat when it returns
getChat(item, id) ==
    LET list == getChats(item)
        index == FindIndex(list, id)
    IN IF index >= 1 THEN Some(list[index]) ELSE None

\* Array.prototype.filter(c => c.id !== id)
FilterOut(list, id) == SelectSeq(list, LAMBDA c : c.id # id)

\* storage.deleteChat: chats.filter throws inside the try on a value that is
\* no array, and nothing is written
deleteChat(item, id) ==
    IF ReadsList(item) THEN Stringify(FilterOut(getChats(item), id)) ELSE item

\* storage.generateChatTitle
generateChatTitle(firstMessage) ==
    LET title == Slice0(Trim(firstMessage), 50)
    IN IF title # <<>> THEN title ELSE NewChatTitle

EmptyChat(id, t) ==
    [id |-> id, title |-> NewChatTitle, messages |-> <<>>,
     createdAt |-> t, updatedAt |-> t]

StoredIds(item) == {getChats(item)[i].id : i \in 1..Len(getChats(item))}

---------------------------------------------------------------------------
(* Storage run: direct storage.saveChat calls with any id and any updatedAt *)
(* on a store that already holds InitChats chats.                          *)

SaveIds == {1, InitChats + 1, InitChats + 2}
SaveStamps == {3, 5, 60 + InitChats, 61 + InitChats}

\* the store a session starts from: InitChats chats, most recent first
InitStamp(i) == 10 + InitChats - i

InitStoreList == [i \in 1..InitChats |-> EmptyChat(i, InitStamp(i))]

MaxStamp(f) ==
    IF DOMAIN f = {} THEN 0
    ELSE CHOOSE m \in {f[i] : i \in DOMAIN f} : \A i \in DOMAIN f : f[i] <= m

NoTurn == [chatId |-> 0, text |-> <<>>, files |-> {}, history |-> None,
           userMessage |-> None, wasOffline |-> FALSE]

NoSync == [pc |-> "idle", localServers |-> <<>>, backendServers |-> <<>>, i |-> 0]

\* the tool catalog and the audio player before the first effect runs
ToolsIdle ==
    /\ availableTools = <<>>
    /\ toolsLoading = TRUE
    /\ toolsError = None
    /\ loads = <<>>
    /\ nRefresh = 0
    /\ toolsFrom = 0

PlayIdle ==
    /\ lastPlayedMessageId = None
    /\ played = <<>>

NoForm == [id |-> "", type |-> "", command |-> "", url |-> "", env |-> ""]
NoOp == [name |-> "none", id |-> "", ok |-> FALSE, form |-> NoForm]

\* MCPServerManager before its first effect, with nothing stored or registered
ManagerIdle ==
    /\ lsMcp = MissingItem
    /\ servers = <<>>
    /\ mcpError = None
    /\ sync = NoSync
    /\ backend = <<>>
    /\ backendUp = TRUE
    /\ reachable = {}
    /\ quiet = FALSE
    /\ afterSync = None
    /\ nSyncs = 0
    /\ nChanges = 0
    /\ events = <<>>
    /\ timers = <<>>
    /\ nLoadTools = 0
    /\ lastOp = NoOp
    /\ ToolsIdle
    /\ PlayIdle
    /\ storageEvents = 0

NoOutcome == [op |-> "none", threw |-> FALSE, isList |-> TRUE, chat |-> None]

\* ChatContainer as mounted: no turn in flight, chat mode, nothing recorded
ContainerIdle ==
    /\ ManagerIdle
    /\ mode = "chat"
    /\ isRecording = FALSE
    /\ audioBlob = FALSE
    /\ stopping = FALSE
    /\ starting = FALSE
    /\ outcome = NoOutcome
    /\ isLoading = FALSE
    /\ serverStatus = "online"
    /\ audioOutputEnabled = TRUE
    /\ toolCallingEnabled = TRUE
    /\ pc = "idle"
    /\ turn = NoTurn
    /\ request = None
    /\ reply = None
    /\ nTurns = 0

HookIdle ==
    /\ now = 0
    /\ nextChatId = 1
    /\ chats = <<>>
    /\ currentChatId = None
    /\ nCalls = 0
    /\ ContainerIdle

InitStore ==
    /\ lsChats = Stringify(InitStoreList)
    /\ everSaved = [i \in 1..InitChats |-> InitStamp(i)]
    /\ monotone = TRUE
    /\ nSaves = 0
    /\ HookIdle

SaveChatCall(id, stamp) ==
    /\ nSaves < MaxSaves
    /\ lsChats' = saveChat(lsChats, EmptyChat(id, stamp))
    /\ everSaved' = [i \in DOMAIN everSaved \cup {id} |->
                        IF i = id THEN stamp ELSE everSaved[i]]
    /\ monotone' = (monotone /\ stamp >= MaxStamp(everSaved))
    /\ nSaves' = nSaves + 1
    /\ UNCHANGED <<hookVars, turnVars, mcpVars, busVars, toolVars, playVars, tabVars, voiceVars, outcome, lastOp>>

NextStore == \E id \in SaveIds, stamp \in SaveStamps : SaveChatCall(id, stamp)

SpecStore == InitStore /\ [][NextStore]_vars

\* the stored list holds Cardinality(ids) chats no older than any saved chat left out
RetainedAreMostRecent ==
    LET list == getChats(lsChats)
        kept == StoredIds(lsChats)
    IN /\ Len(list) = MAX_CHATS
       /\ Cardinality(kept) = MAX_CHATS
       /\ kept \subseteq DOMAIN everSaved
       /\ \A i \in 1..Len(list) : list[i].updatedAt = everSaved[list[i].id]
       /\ \A k \in kept : \A e \in (DOMAIN everSaved) \ kept :
              everSaved[k] >= everSaved[e]

\* C1 (as stated): after any sequence of saveChat calls the list has at most
\* MAX_CHATS entries and, once more than MAX_CHATS distinct ids were saved,
\* holds exactly the MAX_CHATS chats with the greatest updatedAt.
C1_Original ==
    /\ Len(getChats(lsChats)) <= MAX_CHATS
    /\ Cardinality(DOMAIN everSaved) > MAX_CHATS => RetainedAreMostRecent

\* C1 (amended): the list never exceeds MAX_CHATS entries; when every call
\* carried an updatedAt at least as great as all saved before it and more than
\* MAX_CHATS distinct ids were saved, the retained chats are MAX_CHATS chats
\* with the greatest updatedAt.
C1_Amended ==
    /\ Len(getChats(lsChats)) <= MAX_CHATS
    /\ (monotone /\ Cardinality(DOMAIN everSaved) > MAX_CHATS)
          => RetainedAreMostRecent

C1_Witness ==
    /\ monotone
    /\ nSaves >= 2
    /\ Cardinality(DOMAIN everSaved) > MAX_CHATS
    /\ 1 \in StoredIds(lsChats)
    /\ InitChats \notin StoredIds(lsChats)

---------------------------------------------------------------------------
(* useChatHistory.ts: the hook over the repository *)

Message(role, content, t) ==
    [role |-> role, content |-> content, timestamp |-> t,
     audioData |-> None, imageUrl |-> None, videoUrl |-> None,
     toolCalls |-> None, toolCallId |-> None]

\* a variant that derives the title whenever the title is still the sentinel
addMessageTitleAlways(item, chatId, message, t) ==
    LET found == getChat(item, chatId)
    IN IF found = None THEN item
       ELSE LET chat == found[1]
                appended == [chat EXCEPT !.messages = Append(@, message),
                                         !.updatedAt = t]
                updatedChat ==
                    IF appended.title = NewChatTitle /\ message.role = "user"
                    THEN [appended EXCEPT
                             !.title = generateChatTitle(message.content)]
                    ELSE appended
            IN saveChat(item, updatedChat)

\* a variant that puts the new message first
addMessagePrepends(item, chatId, message, t) ==
    LET found == getChat(item, chatId)
    IN IF found = None THEN item
       ELSE LET chat == found[1]
                appended == [chat EXCEPT !.messages = <<message>> \o @,
                                         !.updatedAt = t]
                updatedChat ==
                    IF /\ Len(appended.messages) = 1
                       /\ appended.title = NewChatTitle
                       /\ message.role = "user"
                    THEN [appended EXCEPT
                             !.title = generateChatTitle(message.content)]
                    ELSE appended
            IN saveChat(item, updatedChat)

\* a variant that appends to the copy held in memory
addMessageToCached(item, chatId, message, t) ==
    IF \A i \in 1..Len(chats) : chats[i].id # chatId THEN item
    ELSE LET chat == chats[FindIndex(chats, chatId)]
             appended == [chat EXCEPT !.messages = Append(@, message),
                                      !.updatedAt = t]
             updatedChat ==
                 IF /\ Len(appended.messages) = 1
                    /\ appended.title = NewChatTitle
                    /\ message.role = "user"
                 THEN [appended EXCEPT
                          !.title = generateChatTitle(message.content)]
                 ELSE appended
         IN saveChat(item, updatedChat)

\* addMessage: the value it leaves under STORAGE_KEY (t is Date.now())
addMessage(item, chatId, message, t) ==
    LET found == getChat(item, chatId)
    IN IF found = None THEN item
       ELSE LET chat == found[1]
                appended == [chat EXCEPT !.messages = Append(@, message),
                                         !.updatedAt = t]
                updatedChat ==
                    IF /\ Len(appended.messages) = 1
                       /\ appended.title = NewChatTitle
                       /\ message.role = "user"
                    THEN [appended EXCEPT
                             !.title = generateChatTitle(message.content)]
                    ELSE appended
            IN saveChat(item, updatedChat)

\* first argument stores a chat under an id that is not there
renameChatCreates(item, chatId, newTitle, t) ==
    LET found == getChat(item, chatId)
    IN saveChat(item,
            [(IF found = None THEN EmptyChat(chatId, t) ELSE found[1]) EXCEPT
                !.title = IF Trim(newTitle) # <<>> THEN Trim(newTitle)
                          ELSE NewChatTitle,
                !.updatedAt = t])

\* renameChat: the value it leaves under STORAGE_KEY
renameChat(item, chatId, newTitle, t) ==
    LET found == getChat(item, chatId)
    IN IF found = None THEN item
       ELSE saveChat(item,
                [found[1] EXCEPT
                    !.title = IF Trim(newTitle) # <<>> THEN Trim(newTitle)
                              ELSE NewChatTitle,
                    !.updatedAt = t])

\* the most recent chat's id: updatedChats.sort(...)[0].id
MostRecentId(list) ==
    IF list = <<>> THEN None ELSE Some(SortByUpdatedAtDesc(list)[1].id)

Tick ==
    /\ now < MaxTime
    /\ now' = now + 1
    /\ UNCHANGED <<lsChats, outsideHook, nextChatId, chats, currentChatId, nCalls>>

\* createNewChat
NewChat ==
    /\ nextChatId <= MaxNewChats
    /\ lsChats' = saveChat(lsChats, EmptyChat(nextChatId, now))
    /\ chats' = getChats(lsChats')
    /\ currentChatId' = Some(nextChatId)
    /\ nextChatId' = nextChatId + 1
    /\ UNCHANGED <<outsideHook, now>>

AddMessage(chatId, message) ==
    /\ lsChats' = addMessage(lsChats, chatId, message, now)
    /\ chats' = IF getChat(lsChats, chatId) = None THEN chats
                ELSE getChats(lsChats')
    /\ UNCHANGED <<outsideHook, now, nextChatId, currentChatId>>

RenameChat(chatId, newTitle) ==
    /\ lsChats' = renameChat(lsChats, chatId, newTitle, now)
    /\ chats' = IF getChat(lsChats, chatId) = None THEN chats
                ELSE getChats(lsChats')
    /\ UNCHANGED <<outsideHook, now, nextChatId, currentChatId>>

DeleteChat(chatId) ==
    /\ lsChats' = deleteChat(lsChats, chatId)
    /\ chats' = getChats(lsChats')
    /\ currentChatId' = IF currentChatId = Some(chatId)
                        THEN MostRecentId(chats')
                        ELSE currentChatId
    /\ UNCHANGED <<outsideHook, now, nextChatId>>

---------------------------------------------------------------------------
(* apiService: how a turn becomes a request, and how the call can fail *)

MediaMessageText == <<"[","M","e","d","i","a"," ","m","e","s","s","a","g","e","]">>
DescribeMediaText == <<"D","e","s","c","r","i","b","e"," ","t","h","e"," ","u","p","l","o","a","d","e","d"," ","m","e","d","i","a",".">>
ErrorPrefix == <<"E","r","r","o","r",":"," ">>
NoResponseText == <<"N","o"," ","r","e","s","p","o","n","s","e">>
ConnectText == <<"c","o","n","n","e","c","t">>
DefaultFailureText == <<"F","a","i","l","e","d"," ","t","o"," ","g","e","t"," ","r","e","s","p","o","n","s","e"," ","f","r","o","m"," ","s","e","r","v","e","r">>
NoResponseFromServerText == <<"N","o"," ","r","e","s","p","o","n","s","e"," ","f","r","o","m"," ","s","e","r","v","e","r">>
ServerErrorText == <<"S","e","r","v","e","r"," ","e","r","r","o","r">>
ServerUnreachableText == <<"N","o"," ","r","e","s","p","o","n","s","e"," ","f","r","o","m"," ","s","e","r","v","e","r","."," ","M","a","k","e"," ","s","u","r","e"," ","t","h","e"," ","s","e","r","v","e","r"," ","i","s"," ","r","u","n","n","i","n","g",".">>
RequestFailedText == <<"R","e","q","u","e","s","t"," ","f","a","i","l","e","d">>

\* A media string is a data URL "data:<mime>;base64,<b64>", or bare base64
\* text when mime is "".
DataUrl(mime, b64) == [mime |-> mime, b64 |-> b64]
Base64(b64) == [mime |-> "", b64 |-> b64]
StartsWithData(m) == m.mime # ""

\* a File: its type and its bytes (as base64)
File(type, b64) == [type |-> type, b64 |-> b64]

\* FileReader.readAsDataURL, as convertFileToDataUrl resolves it
convertFileToDataUrl(file) == DataUrl(file.type, file.b64)

\* dataUrlToBase64: the part after the comma
dataUrlToBase64(m) == IF StartsWithData(m) THEN Base64(m.b64) ELSE m

fileToBase64(file) == dataUrlToBase64(convertFileToDataUrl(file))

ApiMessage(role, content) ==
    [role |-> role, content |-> content,
     image_data |-> None, video_data |-> None, audio_data |-> None,
     tool_calls |-> None, tool_call_id |-> None]

\* a variant that copies the media of every message, whatever its role
HistoryMessageAllMedia(msg) ==
    [ApiMessage(msg.role, msg.content) EXCEPT
        !.image_data = msg.imageUrl,
        !.video_data = msg.videoUrl,
        !.audio_data = msg.audioData,
        !.tool_calls = msg.toolCalls,
        !.tool_call_id = msg.toolCallId]

\* sendMessageWithTools: one history message in the wire schema
HistoryMessage(msg) ==
    [ApiMessage(msg.role, msg.content) EXCEPT
        !.image_data = IF msg.role = "user" THEN msg.imageUrl ELSE None,
        !.video_data = IF msg.role = "user" THEN msg.videoUrl ELSE None,
        !.audio_data =
            IF msg.role = "user" /\ msg.audioData # None
            THEN IF StartsWithData(msg.audioData[1]) THEN msg.audioData
                 ELSE Some(DataUrl("audio/wav", msg.audioData[1].b64))
            ELSE None,
        !.tool_calls = msg.toolCalls,
        !.tool_call_id = msg.toolCallId]

\* sendMessageWithTools: the current message with its files inlined
CurrentMessage(text, files) ==
    LET inline(kind, fallback) ==
            IF \E f \in files : f.kind = kind
            THEN LET f == CHOOSE f \in files : f.kind = kind
                 IN Some(DataUrl(IF kind = "audio" THEN "audio/wav"
                                 ELSE IF f.file.type # "" THEN f.file.type
                                 ELSE fallback,
                                 fileToBase64(f.file).b64))
            ELSE None
    IN [ApiMessage("user", text) EXCEPT
           !.audio_data = inline("audio", "audio/wav"),
           !.image_data = inline("image", "image/png"),
           !.video_data = inline("video", "video/mp4")]

\* sendMessageWithTools: requestBody.messages
ApiMessages(history, text, files) ==
    [i \in 1..Len(history) |-> HistoryMessage(history[i])]
        \o <<CurrentMessage(text, files)>>

\* apiService.sendMessage: the request it makes. messages is options.messages
\* (None when undefined); the tool descriptors passed with it do not change
\* the endpoint, since options.messages is never empty when it is defined.
sendMessage(text, files, returnAudio, messages) ==
    IF messages # None /\ Len(messages[1]) > 0
    THEN [path |-> "/v1/omni/chat/completions",
          messages |-> ApiMessages(messages[1], text, files),
          text |-> text, files |-> {},
          returnAudio |-> returnAudio]
    ELSE [path |-> "/v1/omni/chat/completions/upload",
          messages |-> <<>>,
          text |-> text, files |-> {f.kind : f \in files},
          returnAudio |-> returnAudio]

\* the message of the Error that sendMessage throws for an axios failure
ThrownMessage(err) ==
    IF err.kind = "response"
    THEN IF err.text # None /\ err.text[1] # <<>> THEN err.text[1]
         ELSE ServerErrorText
    ELSE IF err.kind = "request" THEN ServerUnreachableText
    ELSE IF err.text # None /\ err.text[1] # <<>> THEN err.text[1]
         ELSE RequestFailedText

---------------------------------------------------------------------------
(* ChatContainer.tsx: one turn of handleSend *)

\* currentChat of useChatHistory: looked up in the in-memory list
currentChat ==
    IF currentChatId = None THEN None
    ELSE IF \E i \in 1..Len(chats) : chats[i].id = currentChatId[1]
    THEN Some(chats[FindIndex(chats, currentChatId[1])])
    ELSE None

RECURSIVE addMessages(_, _, _, _)
addMessages(item, chatId, messages, t) ==
    IF messages = <<>> THEN item
    ELSE addMessages(addMessage(item, chatId, Head(messages), t),
                     chatId, Tail(messages), t)

\* setChats(storage.getChats()) as addMessage runs it: only if the chat was found
ChatsAfter(item, itemAfter, chatId, list) ==
    IF getChat(item, chatId) = None THEN list ELSE getChats(itemAfter)

\* the message handleSend stores for one entry of conversation_messages
ConversationMessage(msg, audio, t) ==
    [role |-> msg.role, content |-> msg.content, timestamp |-> t,
     audioData |-> IF msg.role = "assistant" /\ audio # None THEN audio ELSE None,
     imageUrl |-> None, videoUrl |-> None,
     toolCalls |-> msg.tool_calls, toolCallId |-> msg.tool_call_id]

\* a loop that does not skip the user entries
ConversationAppendsKeepUser(conv, audio, t) ==
    [i \in 1..Len(conv) |-> ConversationMessage(conv[i], audio, t)]

\* the for loop over response.conversation_messages
RECURSIVE ConversationAppends(_, _, _)
ConversationAppends(conv, audio, t) ==
    IF conv = <<>> THEN <<>>
    ELSE IF Head(conv).role = "user" THEN ConversationAppends(Tail(conv), audio, t)
    ELSE <<ConversationMessage(Head(conv), audio, t)>>
            \o ConversationAppends(Tail(conv), audio, t)

\* a variant that takes the loop whenever conversation_messages is defined
SuccessAppendsAnyList(response, t) ==
    LET choice == response.choice[1]
        conv == response.conversation_messages
    IN IF conv # None
       THEN ConversationAppends(conv[1], choice.audio, t)
       ELSE <<[Message("assistant", choice.content, t) EXCEPT
                  !.audioData = choice.audio,
                  !.toolCalls = choice.tool_calls]>>

\* what handleSend appends for a response with a first choice
SuccessAppends(response, t) ==
    LET choice == response.choice[1]
        conv == response.conversation_messages
    IN IF conv # None /\ Len(conv[1]) > 0
       THEN ConversationAppends(conv[1], choice.audio, t)
       ELSE <<[Message("assistant", choice.content, t) EXCEPT
                  !.audioData = choice.audio,
                  !.toolCalls = choice.tool_calls]>>

\* the message of what the try block threw (None: not an Error, or no message)
CaughtMessage(r) ==
    IF r.kind = "response" THEN Some(NoResponseFromServerText)
    ELSE IF r.kind = "axiosError" THEN Some(ThrownMessage(r.error))
    ELSE None

\* a test that knows only the word connect
IsConnectionErrorConnectOnly(message) ==
    /\ message # None
    /\ Includes(message[1], ConnectText)

IsConnectionError(message) ==
    /\ message # None
    /\ Includes(message[1], ConnectText) \/ Includes(message[1], NoResponseText)

ErrorMessage(message, t) ==
    Message("assistant",
            ErrorPrefix \o (IF message # None /\ message[1] # <<>>
                            THEN message[1] ELSE DefaultFailureText),
            t)

\* a catch block that stores no message
CatchWithoutMessage(message) ==
    /\ serverStatus' = IF IsConnectionError(message) THEN "offline"
                       ELSE serverStatus
    /\ lsChats' = lsChats
    /\ chats' = chats
    /\ isLoading' = FALSE
    /\ pc' = "idle"
    /\ turn' = NoTurn
    /\ request' = None
    /\ reply' = None

\* a catch block after which the busy flag is not cleared
CatchKeepsLoading(message) ==
    /\ serverStatus' = IF IsConnectionError(message) THEN "offline"
                       ELSE serverStatus
    /\ lsChats' = addMessage(lsChats, turn.chatId, ErrorMessage(message, now), now)
    /\ chats' = ChatsAfter(lsChats, lsChats', turn.chatId, chats)
    /\ isLoading' = isLoading
    /\ pc' = "idle"
    /\ turn' = NoTurn
    /\ request' = None
    /\ reply' = None

\* the catch and finally blocks of handleSend
Catch(message) ==
    /\ serverStatus' = IF IsConnectionError(message) THEN "offline"
                       ELSE serverStatus
    /\ lsChats' = addMessage(lsChats, turn.chatId, ErrorMessage(message, now), now)
    /\ chats' = ChatsAfter(lsChats, lsChats', turn.chatId, chats)
    /\ isLoading' = FALSE
    /\ pc' = "idle"
    /\ turn' = NoTurn
    /\ request' = None
    /\ reply' = None

\* handleSend from "Add user message to chat" to the await of sendMessage:
\* item and list are the store and the in-memory chats it starts from
SendFrom(item, list, tr) ==
    LET pick(kind) == IF \E f \in tr.files : f.kind = kind
                      THEN Some(convertFileToDataUrl(
                               (CHOOSE f \in tr.files : f.kind = kind).file))
                      ELSE None
        content == IF tr.text # <<>> THEN tr.text ELSE MediaMessageText
        userMessage == [Message("user", content, now) EXCEPT
                           !.imageUrl = pick("image"),
                           !.videoUrl = pick("video")]
        history == IF tr.history = None THEN <<>> ELSE tr.history[1]
        messages == history \o <<userMessage>>
    IN /\ lsChats' = addMessage(item, tr.chatId, userMessage, now)
       /\ chats' = ChatsAfter(item, lsChats', tr.chatId, list)
       /\ serverStatus' = IF tr.wasOffline THEN "online" ELSE serverStatus
       /\ request' = Some(sendMessage(
                        IF tr.text # <<>> THEN tr.text ELSE DescribeMediaText,
                        tr.files, audioOutputEnabled,
                        IF toolCallingEnabled THEN Some(messages) ELSE None))
       /\ turn' = [tr EXCEPT !.userMessage = Some(userMessage)]
       /\ pc' = "awaitReply"

NeedsConversion(files) == \E f \in files : f.kind \in {"image", "video"}

\* MessageInput.handleSubmit calling handleSend, up to its first await
HandleSubmit(text, files) ==
    /\ Trim(text) # <<>> \/ files # {}
    /\ ~(serverStatus = "offline" \/ isLoading)
    /\ pc = "idle"
    /\ nTurns < MaxTurns
    /\ nTurns' = nTurns + 1
    /\ currentChat = None => nextChatId <= MaxNewChats
    /\ LET created == currentChat = None
           chatId == IF created THEN nextChatId ELSE currentChat[1].id
           item == IF created THEN saveChat(lsChats, EmptyChat(nextChatId, now))
                   ELSE lsChats
           list == IF created THEN getChats(item) ELSE chats
           tr == [NoTurn EXCEPT
                     !.chatId = chatId,
                     !.text = Trim(text),
                     !.files = files,
                     !.history = IF created THEN None
                                 ELSE Some(currentChat[1].messages),
                     !.wasOffline = (serverStatus = "offline")]
       IN /\ currentChatId' = IF created THEN Some(nextChatId) ELSE currentChatId
          /\ nextChatId' = IF created THEN nextChatId + 1 ELSE nextChatId
          /\ isLoading' = TRUE
          /\ IF NeedsConversion(files)
             THEN /\ pc' = "converting"
                  /\ turn' = tr
                  /\ lsChats' = item
                  /\ chats' = list
                  /\ UNCHANGED <<serverStatus, request>>
             ELSE SendFrom(item, list, tr)
    /\ UNCHANGED <<now, nCalls, reply, audioOutputEnabled, toolCallingEnabled,
                   outsideTurn>>

\* convertFileToDataUrl resolved
ConvertDone ==
    /\ pc = "converting"
    /\ SendFrom(lsChats, chats, turn)
    /\ UNCHANGED <<now, nextChatId, currentChatId, nCalls, isLoading, reply,
                   audioOutputEnabled, toolCallingEnabled, nTurns, outsideTurn>>

\* convertFileToDataUrl rejected with the reader's error event
ConvertFail ==
    /\ pc = "converting"
    /\ Catch(None)
    /\ UNCHANGED <<now, nextChatId, currentChatId, nCalls,
                   audioOutputEnabled, toolCallingEnabled, nTurns, outsideTurn>>

\* the backend call settles with r
BackendSettles(r) ==
    /\ pc = "awaitReply"
    /\ reply = None
    /\ r.kind = "readError" =>
          (turn.files # {} /\ request[1].path = "/v1/omni/chat/completions")
    /\ reply' = Some(r)
    /\ UNCHANGED <<lsChats, hookVars, isLoading, serverStatus, audioOutputEnabled,
                   toolCallingEnabled, pc, turn, request, nTurns, outsideTurn>>

\* handleSend resumes after the await of sendMessage
HandleReply ==
    /\ pc = "awaitReply"
    /\ reply # None
    /\ LET r == reply[1]
       IN IF r.kind = "response" /\ r.response.choice # None
          THEN /\ lsChats' = addMessages(lsChats, turn.chatId,
                                         SuccessAppends(r.response, now), now)
               /\ chats' = ChatsAfter(lsChats, lsChats', turn.chatId, chats)
               /\ isLoading' = FALSE
               /\ pc' = "idle"
               /\ turn' = NoTurn
               /\ request' = None
               /\ reply' = None
               /\ UNCHANGED serverStatus
          ELSE Catch(CaughtMessage(r))
    /\ UNCHANGED <<now, nextChatId, currentChatId, nCalls,
                   audioOutputEnabled, toolCallingEnabled, nTurns, outsideTurn>>

ToggleAudioOutput ==
    /\ audioOutputEnabled' = ~audioOutputEnabled
    /\ UNCHANGED <<lsChats, now, nextChatId, chats, currentChatId, isLoading,
                   serverStatus, toolCallingEnabled, pc, turn, request, reply,
                   nTurns, outsideTurn>>

ToggleToolCalling ==
    /\ toolCallingEnabled' = ~toolCallingEnabled
    /\ UNCHANGED <<lsChats, now, nextChatId, chats, currentChatId, isLoading,
                   serverStatus, audioOutputEnabled, pc, turn, request, reply,
                   nTurns, outsideTurn>>

---------------------------------------------------------------------------
(* Repository run: the hook's operations called with any chat id and any  *)
(* message, from an empty store.                                           *)

LongText == [i \in 1..53 |-> IF i = 1 THEN " " ELSE IF i = 51 THEN " " ELSE "x"]

Texts == {<<" ">>, <<" ","H","i"," ">>, LongText}

ChatIds == 1..MaxNewChats

RepoMessages ==
    {Message("user", c, now) : c \in Texts}
        \cup {Message("assistant", <<"O","k">>, now)}

\* one hook operation called by the run
Called(op) == nCalls < MaxCalls /\ op /\ nCalls' = nCalls + 1

InitRepo ==
    /\ lsChats = MissingItem
    /\ everSaved = <<>>
    /\ monotone = TRUE
    /\ nSaves = 0
    /\ HookIdle

NextRepo ==
    \/ Tick
    \/ Called(NewChat)
    \/ \E id \in ChatIds, m \in RepoMessages : Called(AddMessage(id, m))
    \/ \E id \in ChatIds, c \in {<<" ">>, <<"R"," ">>} : Called(RenameChat(id, c))
    \/ \E id \in ChatIds : Called(DeleteChat(id))

SpecRepo == InitRepo /\ [][NextRepo]_vars

AllWhitespace(s) == \A i \in 1..Len(s) : IsWhitespace(s[i])

\* title is what the auto-title must give for content: the sentinel when
\* content is blank, else the text from content's first non-blank character,
\* 50 characters long or running to content's last non-blank character
IsDerivedTitle(title, content) ==
    IF AllWhitespace(content) THEN title = NewChatTitle
    ELSE \E k \in 0..(Len(content) - 1) :
            /\ AllWhitespace(SubSeq(content, 1, k))
            /\ ~IsWhitespace(content[k + 1])
            /\ Len(title) \in 1..50
            /\ k + Len(title) <= Len(content)
            /\ title = SubSeq(content, k + 1, k + Len(title))
            /\ \/ Len(title) = 50
               \/ /\ ~IsWhitespace(title[Len(title)])
                  /\ AllWhitespace(SubSeq(content, k + Len(title) + 1,
                                          Len(content)))

\* the chat stored under id before and after a step, when a message was appended
Appended(id) ==
    /\ getChat(lsChats, id) # None
    /\ getChat(lsChats', id) # None
    /\ Len(getChat(lsChats', id)[1].messages)
          = Len(getChat(lsChats, id)[1].messages) + 1

\* C2: an addMessage of a user message on a chat with no message and the
\* title "New Chat" sets the title to the first 50 characters of the trimmed
\* content ("New Chat" when that is empty); an addMessage on a chat that holds
\* a message leaves the title as it was.
C2_AutoTitle ==
    [][\A id \in ChatIds :
          Appended(id) =>
            LET before == getChat(lsChats, id)[1]
                after  == getChat(lsChats', id)[1]
                m      == after.messages[Len(after.messages)]
            IN /\ (before.messages = <<>> /\ before.title = NewChatTitle
                      /\ m.role = "user")
                    => IsDerivedTitle(after.title, m.content)
               /\ before.messages # <<>> => after.title = before.title
      ]_vars

\* a long first user message has given a 50-character title, and a later
\* user message was appended to a chat whose title is the sentinel again
C2_Witness ==
    \E i \in 1..Len(getChats(lsChats)) :
        LET c == getChats(lsChats)[i]
        IN /\ Len(c.messages) = 2
           /\ c.messages[1].role = "user"
           /\ c.messages[1].content = LongText
           /\ c.messages[2].role = "user"
           /\ Len(c.title) = 50

---------------------------------------------------------------------------
(* Turn run: turns submitted from the message input, on an empty store or *)
(* on a store that holds one earlier conversation, against a backend that  *)
(* may answer anything.                                                    *)

ImageFile == [kind |-> "image", file |-> File("image/png", "aW1n")]
VideoFile == [kind |-> "video", file |-> File("", "dmlk")]
AudioFile == [kind |-> "audio", file |-> File("audio/webm", "YXVk")]

InputTexts == {<<" ">>, <<" ","H","i"," ">>}
InputFiles == {{}, {AudioFile, ImageFile, VideoFile}}

ToolCall(id) == [id |-> id, name |-> "get_weather"]

Entry(role, content) ==
    [role |-> role, content |-> content, tool_calls |-> None, tool_call_id |-> None]

AudioPayload == Some(Base64("UklGRg"))

\* user echo, assistant with a tool call, its result, final assistant
ToolConversation ==
    << Entry("user", <<"H","i">>),
       [Entry("assistant", <<>>) EXCEPT !.tool_calls = Some(<<ToolCall("t1")>>)],
       [Entry("tool", <<"7","2","F">>) EXCEPT !.tool_call_id = Some("t1")],
       Entry("assistant", <<"I","t","'","s"," ","7","2","F">>) >>

\* a tool result that answers no tool call of the conversation
DanglingConversation ==
    << Entry("user", <<"H","i">>),
       [Entry("tool", <<"7","2","F">>) EXCEPT !.tool_call_id = Some("t9")],
       Entry("assistant", <<"I","t","'","s"," ","7","2","F">>) >>

Response(content, audio, conv) ==
    [choice |-> Some([content |-> content, audio |-> audio, tool_calls |-> None]),
     conversation_messages |-> conv]

Responses ==
    { Response(<<"H","i"," ","t","h","e","r","e">>, None, None),
      Response(<<"H","i"," ","t","h","e","r","e">>, AudioPayload, Some(<<>>)),
      Response(<<"I","t","'","s"," ","7","2","F">>, None, Some(ToolConversation)),
      Response(<<"I","t","'","s"," ","7","2","F">>, AudioPayload,
               Some(ToolConversation)),
      Response(<<"I","t","'","s"," ","7","2","F">>, None,
               Some(DanglingConversation)),
      [choice |-> None, conversation_messages |-> Some(ToolConversation)] }

NoError == [kind |-> "none", text |-> None]
NoResponse == [choice |-> None, conversation_messages |-> None]

AxiosErrors ==
    { [kind |-> "request", text |-> None],
      [kind |-> "response", text |-> None],
      [kind |-> "response",
       text |-> Some(<<"C","a","n","n","o","t"," ","c","o","n","n","e","c","t">>)] }

Replies ==
    {[kind |-> "response", response |-> r, error |-> NoError] : r \in Responses}
      \cup {[kind |-> "axiosError", response |-> NoResponse, error |-> e] :
                e \in AxiosErrors}
      \cup {[kind |-> "readError", response |-> NoResponse, error |-> NoError]}

\* an earlier conversation: a user turn with media, a tool call and its
\* result, and a spoken final answer
SeedChat ==
    [id |-> 0,
     title |-> <<"H","i">>,
     messages |->
        << [Message("user", <<"H","i">>, 0) EXCEPT
               !.imageUrl = Some(DataUrl("image/png", "aW1n")),
               !.videoUrl = Some(DataUrl("video/mp4", "dmlk"))],
           [Message("assistant", <<>>, 0) EXCEPT
               !.toolCalls = Some(<<ToolCall("t0")>>)],
           [Message("tool", <<"7","2","F">>, 0) EXCEPT !.toolCallId = Some("t0")],
           [Message("assistant", <<"I","t","'","s"," ","7","2","F">>, 0) EXCEPT
               !.audioData = AudioPayload] >>,
     createdAt |-> 0, updatedAt |-> 0]

TurnChatIds == 0..MaxNewChats

\* on mount the hook loads the stored chats and selects the most recent
InitTurn ==
    /\ lsChats \in {MissingItem, Stringify(<<SeedChat>>)}
    /\ everSaved = <<>>
    /\ monotone = TRUE
    /\ nSaves = 0
    /\ now = 0
    /\ nextChatId = 1
    /\ chats = getChats(lsChats)
    /\ currentChatId = MostRecentId(chats)
    /\ nCalls = 0
    /\ ContainerIdle

\* one user action beside the message input
Clicked(op) == nCalls < MaxClicks /\ op /\ nCalls' = nCalls + 1

\* time passes while the backend works on the request
BackendTakesTime == pc = "awaitReply" /\ reply = None /\ Tick

NextTurn ==
    \/ BackendTakesTime
    \/ Clicked(NewChat)
    \/ \E id \in TurnChatIds : Clicked(DeleteChat(id))
    \/ Clicked(ToggleToolCalling)
    \/ \E text \in InputTexts, files \in InputFiles : HandleSubmit(text, files)
    \/ ConvertDone
    \/ ConvertFail
    \/ \E r \in Replies : BackendSettles(r)
    \/ HandleReply

SpecTurn == InitTurn /\ [][NextTurn]_vars

---------------------------------------------------------------------------
(* Properties of a turn *)

\* the chat of the turn in flight, as stored before and after a step
TurnChat == getChat(lsChats, turn.chatId)
TurnChatAfter == getChat(lsChats', turn.chatId)

\* this step is handleSend resuming with the settled reply
Resumes == pc = "awaitReply" /\ reply # None /\ pc' = "idle"

\* the reply is a response that handleSend accepts
Succeeded == reply[1].kind = "response" /\ reply[1].response.choice # None

ReplyConversation ==
    IF Succeeded /\ reply[1].response.conversation_messages # None
    THEN reply[1].response.conversation_messages[1]
    ELSE <<>>

\* the messages the step appended to the turn's chat
Gained ==
    SubSeq(TurnChatAfter[1].messages,
           Len(TurnChat[1].messages) + 1, Len(TurnChatAfter[1].messages))

OnlyAppended ==
    /\ TurnChatAfter # None
    /\ Len(TurnChatAfter[1].messages) >= Len(TurnChat[1].messages)
    /\ SubSeq(TurnChatAfter[1].messages, 1, Len(TurnChat[1].messages))
          = TurnChat[1].messages

ResolvesToolCall(messages, i) ==
    /\ messages[i].toolCallId # None
    /\ \E j \in 1..(i - 1) :
          /\ messages[j].role = "assistant"
          /\ messages[j].toolCalls # None
          /\ \E k \in 1..Len(messages[j].toolCalls[1]) :
                messages[j].toolCalls[1][k].id = messages[i].toolCallId[1]

IsNotUser(entry) == entry.role # "user"

\* C4: when the backend call succeeds with a non-empty conversation_messages,
\* the turn appends to its chat exactly the non-user entries of the sequence,
\* in the backend's order, and no further user message.
C4_AppendsInOrder ==
    [][(Resumes /\ Succeeded /\ ReplyConversation # <<>> /\ TurnChat # None)
          => LET expected == SelectSeq(ReplyConversation, IsNotUser)
             IN /\ OnlyAppended
                /\ Len(Gained) = Len(expected)
                /\ \A i \in 1..Len(expected) :
                      /\ Gained[i].role = expected[i].role
                      /\ Gained[i].content = expected[i].content
                      /\ Gained[i].toolCalls = expected[i].tool_calls
                      /\ Gained[i].toolCallId = expected[i].tool_call_id
                      /\ Gained[i].role # "user"
      ]_vars

\* the tool conversation was appended after the one user message of the turn
C4_Witness ==
    /\ pc = "idle"
    /\ nTurns = 1
    /\ \E c \in 1..Len(getChats(lsChats)) :
          LET messages == getChats(lsChats)[c].messages
              n == Len(messages)
          IN /\ n = 4
             /\ messages[1].role = "user"
             /\ messages[2].role = "assistant"
             /\ messages[2].toolCalls = Some(<<ToolCall("t1")>>)
             /\ messages[3].role = "tool"
             /\ messages[3].toolCallId = Some("t1")
             /\ messages[4].role = "assistant"
             /\ messages[4].content = <<"I","t","'","s"," ","7","2","F">>

\* C5: the step that issues the backend call leaves the user message in the
\* stored chat; and when the call fails, the chat (if still stored) keeps
\* the user message and gains exactly one assistant message that carries
\* the failure.
C5_UserTurnKept ==
    [][/\ (request = None /\ request' # None /\ getChat(lsChats', turn'.chatId) # None)
          => LET messages == getChat(lsChats', turn'.chatId)[1].messages
             IN /\ turn'.userMessage # None
                /\ messages # <<>>
                /\ messages[Len(messages)] = turn'.userMessage[1]
       /\ (Resumes /\ ~Succeeded /\ TurnChat # None)
          => /\ OnlyAppended
             /\ Len(Gained) = 1
             /\ Gained[1].role = "assistant"
             /\ SubSeq(Gained[1].content, 1, Len(ErrorPrefix)) = ErrorPrefix
             /\ Len(Gained[1].content) > Len(ErrorPrefix)
             /\ \E i \in 1..Len(TurnChatAfter[1].messages) :
                   TurnChatAfter[1].messages[i] = turn.userMessage[1]
      ]_vars

\* a failed call has left the user message followed by the error message
C5_Witness ==
    /\ pc = "idle"
    /\ nTurns = 1
    /\ \E c \in 1..Len(getChats(lsChats)) :
          LET messages == getChats(lsChats)[c].messages
              n == Len(messages)
          IN /\ n >= 2
             /\ messages[n - 1].role = "user"
             /\ messages[n - 1].imageUrl # None
             /\ messages[n].role = "assistant"
             /\ messages[n].content = ErrorPrefix \o ServerErrorText

IsNetworkError == reply[1].kind = "axiosError" /\ reply[1].error.kind = "request"

\* C6: when the backend call fails with a network error (no response
\* received), the server-offline indicator is set after the turn and the chat
\* gains one assistant message whose content contains the error text.
C6_NetworkErrorOffline ==
    [][(Resumes /\ IsNetworkError)
          => /\ serverStatus' = "offline"
             /\ TurnChat # None
                  => /\ OnlyAppended
                     /\ Len(Gained) = 1
                     /\ Gained[1].role = "assistant"
                     /\ Includes(Gained[1].content, ServerUnreachableText)
      ]_vars

C6_Witness ==
    /\ pc = "idle"
    /\ serverStatus = "offline"
    /\ \E c \in 1..Len(getChats(lsChats)) :
          LET messages == getChats(lsChats)[c].messages
          IN /\ messages # <<>>
             /\ messages[Len(messages)].content
                   = ErrorPrefix \o ServerUnreachableText

\* C7: of the messages a turn appends, only the last assistant message
\* carries the audio payload.
C7_AudioOnFinalOnly ==
    [][(Resumes /\ Succeeded /\ TurnChat # None /\ TurnChatAfter # None)
          => \A i \in 1..Len(Gained) :
                Gained[i].audioData # None
                  => \A j \in (i + 1)..Len(Gained) : Gained[j].role # "assistant"
      ]_vars

\* C8: in the history payload every prior message keeps its role, and only
\* messages of role user carry image, video or audio data.
C8_MediaOnlyOnUser ==
    (request # None /\ request[1].path = "/v1/omni/chat/completions")
      => LET sent == request[1].messages
             history == IF turn.history = None THEN <<>> ELSE turn.history[1]
         IN /\ Len(sent) > Len(history)
            /\ \A i \in 1..Len(history) : sent[i].role = history[i].role
            /\ \A i \in 1..Len(sent) :
                  sent[i].role # "user"
                    => /\ sent[i].image_data = None
                       /\ sent[i].video_data = None
                       /\ sent[i].audio_data = None

\* a request whose history holds a spoken assistant message and a user
\* message with an image
C8_Witness ==
    /\ request # None
    /\ request[1].path = "/v1/omni/chat/completions"
    /\ turn.history # None
    /\ \E i \in 1..Len(turn.history[1]) :
          /\ turn.history[1][i].role = "assistant"
          /\ turn.history[1][i].audioData # None
    /\ \E i \in 1..Len(turn.history[1]) :
          /\ turn.history[1][i].role = "user"
          /\ request[1].messages[i].image_data # None

---------------------------------------------------------------------------
(* utils/storage.ts: mcpStorage *)

getServers(item) == IF item.kind = "json" THEN item.val ELSE <<>>

McpFindIndex(list, id) ==
    IF \E i \in 1..Len(list) : list[i].id = id
    THEN CHOOSE i \in 1..Len(list) :
            /\ list[i].id = id
            /\ \A j \in 1..(i - 1) : list[j].id # id
    ELSE 0

saveServer(item, server) ==
    LET list == getServers(item)
        index == McpFindIndex(list, server.id)
    IN IF index > 0 THEN Stringify([list EXCEPT ![index] = server])
       ELSE Stringify(Append(list, server))

deleteServer(item, id) ==
    Stringify(SelectSeq(getServers(item), LAMBDA x : x.id # id))

updateLastConnected(item, id, t) ==
    LET list == getServers(item)
        index == McpFindIndex(list, id)
    IN IF index > 0
       THEN Stringify([list EXCEPT ![index].lastConnected = Some(t)])
       ELSE item

\* an MCPServerConfig; lastConnected is optional
ServerConfig(id, config, lastConnected) ==
    [id |-> id, config |-> config, lastConnected |-> lastConnected]

---------------------------------------------------------------------------
(* The backend's MCP server registry (app/api/mcp_servers.py), as the      *)
(* Provider Connection Manager section describes the remote authority      *)

StdioConfig == [command |-> Some("npx"), url |-> None]
HttpConfig == [command |-> None, url |-> Some("http://mcp")]
Configs == {StdioConfig, HttpConfig}
ServerIds == {"a", "b"}

BackendIds(list) == {list[i].id : i \in 1..Len(list)}

\* POST /v1/mcp/servers/connect that succeeds: the server is registered with
\* the config sent and is connected
Registered(list, id, config) ==
    LET entry == [id |-> id, status |-> "connected", config |-> config]
        index == McpFindIndex(list, id)
    IN IF index > 0 THEN [list EXCEPT ![index] = entry]
       ELSE Append(list, entry)

\* the registry after a connect request of this client
AfterConnect(id, config) ==
    IF backendUp /\ id \in reachable THEN Registered(backend, id, config)
    ELSE backend

Statuses(list) == {<<list[i].id, list[i].status>> : i \in 1..Len(list)}

\* a connect request of this client is answered with success
ConnectSucceeds(id) == backendUp /\ id \in reachable

\* a disconnect or remove request is answered without an error status
Known(id) == backendUp /\ id \in BackendIds(backend)

\* POST /v1/mcp/servers/{id}/disconnect: the server stays registered
AfterDisconnect(id) ==
    IF Known(id)
    THEN [i \in 1..Len(backend) |->
             IF backend[i].id = id
             THEN [backend[i] EXCEPT !.status = "disconnected"]
             ELSE backend[i]]
    ELSE backend

\* DELETE /v1/mcp/servers/{id}
AfterRemove(id) ==
    IF Known(id) THEN SelectSeq(backend, LAMBDA x : x.id # id) ELSE backend

---------------------------------------------------------------------------
(* components/MCPServerManager.tsx *)

\* what a step that is not part of a sync run does to the history
DoesWith(name, id, ok, form) ==
    /\ nChanges < MaxChanges
    /\ nChanges' = nChanges + 1
    /\ quiet' = FALSE
    /\ afterSync' = None
    /\ lastOp' = [name |-> name, id |-> id, ok |-> ok, form |-> form]

Does(name, id, ok) == DoesWith(name, id, ok, NoForm)

Disturbs == Does("remote", "", TRUE)

\* what the end of a sync run records
RunEnds(undisturbed, item) ==
    afterSync' = IF undisturbed
                 THEN Some([store |-> item, statuses |-> Statuses(backend)])
                 ELSE None

\* syncServersWithBackend up to the answer of getMCPServers; a failed request
\* is caught and ends the run
SyncFetch ==
    /\ sync.pc = "idle"
    /\ nSyncs < MaxSyncs
    /\ nSyncs' = nSyncs + 1
    /\ quiet' = TRUE
    /\ sync' = IF backendUp
               THEN [pc |-> "connect", localServers |-> getServers(lsMcp),
                     backendServers |-> backend, i |-> 1]
               ELSE NoSync
    /\ IF backendUp THEN afterSync' = afterSync ELSE RunEnds(TRUE, lsMcp)
    /\ UNCHANGED <<lsMcp, servers, mcpError, backend, backendUp, reachable,
                   nChanges, outsideMcp, lastOp>>

\* one round of the loop over the local servers: a server the backend did not
\* list is sent to connectMCPServer, whose result is not looked at
SyncConnect ==
    /\ sync.pc = "connect"
    /\ sync.i <= Len(sync.localServers)
    /\ LET localServer == sync.localServers[sync.i]
       IN backend' = IF localServer.id \in BackendIds(sync.backendServers)
                     THEN backend
                     ELSE AfterConnect(localServer.id, localServer.config)
    /\ sync' = [sync EXCEPT !.i = sync.i + 1]
    /\ UNCHANGED <<lsMcp, servers, mcpError, backendUp, reachable, quiet,
                   afterSync, nSyncs, nChanges, outsideMcp, lastOp>>

\* the loop that saves every backend server
RECURSIVE SaveBackendServers(_, _)
SaveBackendServers(item, backendServers) ==
    IF backendServers = <<>> THEN item
    ELSE SaveBackendServers(
            saveServer(item, ServerConfig(Head(backendServers).id,
                                          Head(backendServers).config, None)),
            Tail(backendServers))

SyncSave ==
    /\ sync.pc = "connect"
    /\ sync.i > Len(sync.localServers)
    /\ lsMcp' = SaveBackendServers(lsMcp, sync.backendServers)
    /\ sync' = NoSync
    /\ RunEnds(quiet, lsMcp')
    /\ UNCHANGED <<servers, mcpError, backend, backendUp, reachable, quiet,
                   nSyncs, nChanges, outsideMcp, lastOp>>

LocalConfig(list, id) ==
    LET index == McpFindIndex(list, id)
    IN IF index > 0 THEN Some(list[index].config) ELSE None

FailedToLoadText == "Failed to fetch MCP servers"

\* loadServers, the list it sets: backend status with local config, then the
\* local servers the backend does not list; the local servers alone when the
\* request fails
LoadedServers(item, list, up) ==
    LET localServers == getServers(item)
        merged == [i \in 1..Len(list) |->
                      [list[i] EXCEPT
                          !.config = IF LocalConfig(localServers, list[i].id) # None
                                     THEN LocalConfig(localServers, list[i].id)[1]
                                     ELSE list[i].config]]
        missing == SelectSeq(localServers,
                             LAMBDA l : l.id \notin BackendIds(list))
        asDisconnected(some) ==
            [i \in 1..Len(some) |->
                [id |-> some[i].id, status |-> "disconnected",
                 config |-> some[i].config]]
    IN IF up THEN merged \o asDisconnected(missing)
       ELSE asDisconnected(localServers)

\* loadServers, the error it leaves
LoadedError(up) == IF up THEN None ELSE Some(FailedToLoadText)

\* loadServers as the handlers await it, on the store and registry they left
Reloaded ==
    /\ servers' = LoadedServers(lsMcp', backend', backendUp)
    /\ mcpError' = LoadedError(backendUp)

LoadServers ==
    /\ servers' = LoadedServers(lsMcp, backend, backendUp)
    /\ mcpError' = LoadedError(backendUp)
    /\ servers' # servers \/ mcpError' # mcpError
    /\ UNCHANGED <<lsMcp, sync, backend, backendUp, reachable, quiet,
                   afterSync, nSyncs, nChanges, outsideMcp, lastOp>>

\* window.dispatchEvent: the listeners of ChatContainer run loadTools for
\* each of the three event types
Dispatched(log, type, id) == Append(log, [type |-> type, serverId |-> id])

FailedToConnectText == "Failed to connect MCP server"
ConnectionFailedText == "Connection failed"
FailedToDisconnectText == "Failed to disconnect MCP server"
FailedToRemoveText == "Failed to remove MCP server"
FailedToAddText == "Failed to add server"
IdRequiredText == "Server ID is required"
CommandRequiredText == "Command is required for STDIO servers"
UrlRequiredText == "URL is required for HTTP servers"
InvalidEnvText == "Invalid JSON in environment variables"

\* servers.find(s => s.id === serverId)
FindServer(list, id) ==
    IF \E i \in 1..Len(list) : list[i].id = id
    THEN Some(list[CHOOSE i \in 1..Len(list) :
                     /\ list[i].id = id
                     /\ \A j \in 1..(i - 1) : list[j].id # id])
    ELSE None

\* a handleConnect that saves before it looks at the result
HandleConnectSavesFirst(id) ==
    /\ Does("connect", id, ConnectSucceeds(id))
    /\ LET server == FindServer(servers, id)
       IN IF server = None
          THEN UNCHANGED <<lsMcp, servers, mcpError, backend, timers>>
          ELSE /\ backend' = AfterConnect(id, server[1].config)
               /\ lsMcp' = saveServer(lsMcp, ServerConfig(id, server[1].config,
                                                         Some(now)))
               /\ IF ConnectSucceeds(id)
                  THEN Reloaded /\ timers' = Append(timers, id)
                  ELSE /\ mcpError' = Some(ConnectionFailedText)
                       /\ UNCHANGED <<servers, timers>>
    /\ UNCHANGED <<sync, backendUp, reachable, nSyncs, events, nLoadTools, chatVars>>

\* handleConnect up to the setTimeout; a server id that is not in the list
\* returns at once
HandleConnect(id) ==
    /\ Does("connect", id, ConnectSucceeds(id))
    /\ LET server == FindServer(servers, id)
       IN IF server = None
          THEN UNCHANGED <<lsMcp, servers, mcpError, backend, timers>>
          ELSE IF ~backendUp
          THEN /\ mcpError' = Some(FailedToConnectText)
               /\ UNCHANGED <<lsMcp, servers, backend, timers>>
          ELSE IF ConnectSucceeds(id)
          THEN /\ backend' = AfterConnect(id, server[1].config)
               /\ lsMcp' = updateLastConnected(
                              saveServer(lsMcp, ServerConfig(id, server[1].config,
                                                             Some(now))),
                              id, now)
               /\ Reloaded
               /\ timers' = Append(timers, id)
          ELSE /\ mcpError' = Some(ConnectionFailedText)
               /\ UNCHANGED <<lsMcp, servers, backend, timers>>
    /\ UNCHANGED <<sync, backendUp, reachable, nSyncs, events, nLoadTools, chatVars>>

\* the callback of the setTimeout in handleConnect and handleAddServer
TimerFires ==
    /\ timers # <<>>
    /\ events' = Dispatched(Dispatched(events, "mcpServerConnected", Head(timers)),
                            "refreshTools", "")
    /\ nLoadTools' = nLoadTools + 2
    /\ timers' = Tail(timers)
    /\ UNCHANGED <<mcpVars, chatVars, lastOp>>

\* handleDisconnect
HandleDisconnect(id) ==
    /\ Does("disconnect", id, Known(id))
    /\ IF Known(id)
       THEN /\ backend' = AfterDisconnect(id)
            /\ lsMcp' = lsMcp
            /\ Reloaded
            /\ events' = Dispatched(events, "mcpServerDisconnected", id)
            /\ nLoadTools' = nLoadTools + 1
       ELSE /\ mcpError' = Some(FailedToDisconnectText)
            /\ UNCHANGED <<lsMcp, servers, backend, events, nLoadTools>>
    /\ UNCHANGED <<sync, backendUp, reachable, nSyncs, timers, chatVars>>

\* a handleRemove that gives up when the remote removal fails
HandleRemoveStrict(id, confirmed) ==
    /\ Does(IF confirmed THEN "remove" ELSE "removeCancelled", id, Known(id))
    /\ IF confirmed /\ Known(id)
       THEN /\ backend' = AfterRemove(id)
            /\ lsMcp' = deleteServer(lsMcp, id)
            /\ Reloaded
            /\ events' = Dispatched(events, "mcpServerDisconnected", id)
            /\ nLoadTools' = nLoadTools + 1
       ELSE IF confirmed
       THEN /\ mcpError' = Some(FailedToRemoveText)
            /\ UNCHANGED <<lsMcp, servers, backend, events, nLoadTools>>
       ELSE UNCHANGED <<lsMcp, servers, mcpError, backend, events, nLoadTools>>
    /\ UNCHANGED <<sync, backendUp, reachable, nSyncs, timers, chatVars>>

\* handleRemove; confirmed is the answer to window.confirm
HandleRemove(id, confirmed) ==
    /\ Does(IF confirmed THEN "remove" ELSE "removeCancelled", id, Known(id))
    /\ IF confirmed
       THEN /\ backend' = AfterRemove(id)
            /\ lsMcp' = deleteServer(lsMcp, id)
            /\ Reloaded
            /\ events' = Dispatched(events, "mcpServerDisconnected", id)
            /\ nLoadTools' = nLoadTools + 1
       ELSE UNCHANGED <<lsMcp, servers, mcpError, backend, events, nLoadTools>>
    /\ UNCHANGED <<sync, backendUp, reachable, nSyncs, timers, chatVars>>

\* the Add Server form: newServerId and newServerConfig
Form(id, type, command, url, env) ==
    [id |-> id, type |-> type, command |-> command, url |-> url, env |-> env]

IsBlank(id) == id \in {"", " "}

\* a validation that looks at the id only
FormErrorIdOnly(form) ==
    IF IsBlank(form.id) THEN Some(IdRequiredText) ELSE None

\* what handleAddServer finds wrong with the form (None: nothing)
FormError(form) ==
    IF IsBlank(form.id) THEN Some(IdRequiredText)
    ELSE IF form.type = "stdio"
    THEN IF form.command = "" THEN Some(CommandRequiredText)
         ELSE IF form.env = "invalid" THEN Some(InvalidEnvText)
         ELSE None
    ELSE IF form.url = "" THEN Some(UrlRequiredText)
    ELSE None

\* the config handleAddServer builds from a form it accepts
FormConfig(form) ==
    IF form.type = "stdio" THEN [command |-> Some(form.command), url |-> None]
    ELSE [command |-> None, url |-> Some(form.url)]

\* handleAddServer up to the setTimeout
HandleAddServer(form) ==
    /\ DoesWith("add", form.id, ConnectSucceeds(form.id), form)
    /\ IF FormError(form) # None
       THEN /\ mcpError' = FormError(form)
            /\ UNCHANGED <<lsMcp, servers, backend, timers>>
       ELSE IF ~backendUp
       THEN /\ mcpError' = Some(FailedToConnectText)
            /\ UNCHANGED <<lsMcp, servers, backend, timers>>
       ELSE IF ConnectSucceeds(form.id)
       THEN /\ backend' = AfterConnect(form.id, FormConfig(form))
            /\ lsMcp' = saveServer(lsMcp, ServerConfig(form.id, FormConfig(form),
                                                        Some(now)))
            /\ Reloaded
            /\ timers' = Append(timers, form.id)
       ELSE /\ mcpError' = Some(FailedToAddText)
            /\ UNCHANGED <<lsMcp, servers, backend, timers>>
    /\ UNCHANGED <<sync, backendUp, reachable, nSyncs, events, nLoadTools, chatVars>>

---------------------------------------------------------------------------
(* What others do to the backend *)

\* another client connects a server
RemoteConnect(id, config) ==
    /\ backendUp
    /\ Disturbs
    /\ backend' = Registered(backend, id, config)
    /\ UNCHANGED <<lsMcp, servers, mcpError, sync, backendUp, reachable,
                   nSyncs, outsideMcp>>

\* the backend goes down, or comes back with an empty registry
BackendAvailability ==
    /\ Disturbs
    /\ backendUp' = ~backendUp
    /\ backend' = IF backendUp THEN backend ELSE <<>>
    /\ UNCHANGED <<lsMcp, servers, mcpError, sync, reachable, nSyncs, outsideMcp>>

\* an MCP server becomes reachable for the backend, or stops being so
ProviderAvailability(id) ==
    /\ Disturbs
    /\ reachable' = IF id \in reachable THEN reachable \ {id}
                    ELSE reachable \cup {id}
    /\ UNCHANGED <<lsMcp, servers, mcpError, sync, backend, backendUp,
                   nSyncs, outsideMcp>>

---------------------------------------------------------------------------
(* Provider run: sync runs and reloads against a backend others use too *)

Forms ==
    { Form(" ", "stdio", "npx", "", ""),
      Form("b", "stdio", "", "", ""),
      Form("b", "stdio", "npx", "", "invalid"),
      Form("b", "stdio", "npx", "", "valid"),
      Form("b", "http", "", "", ""),
      Form("a", "http", "", "http://mcp", "") }

StoredA == ServerConfig("a", StdioConfig, Some(0))
StoredB == ServerConfig("b", HttpConfig, None)

InitMcp ==
    /\ lsChats = MissingItem
    /\ everSaved = <<>>
    /\ monotone = TRUE
    /\ nSaves = 0
    /\ now = 1
    /\ nextChatId = 1
    /\ chats = <<>>
    /\ currentChatId = None
    /\ nCalls = 0
    /\ isLoading = FALSE
    /\ serverStatus = "online"
    /\ audioOutputEnabled = TRUE
    /\ toolCallingEnabled = TRUE
    /\ pc = "idle"
    /\ turn = NoTurn
    /\ request = None
    /\ reply = None
    /\ nTurns = 0
    /\ mode = "chat"
    /\ isRecording = FALSE
    /\ audioBlob = FALSE
    /\ stopping = FALSE
    /\ starting = FALSE
    /\ outcome = NoOutcome
    /\ events = <<>>
    /\ timers = <<>>
    /\ nLoadTools = 0
    /\ lastOp = NoOp
    /\ ToolsIdle
    /\ PlayIdle
    /\ storageEvents = 0
    /\ lsMcp \in {Stringify(<<StoredA>>), Stringify(<<StoredA, StoredB>>)}
    /\ servers = <<>>
    /\ mcpError = None
    /\ sync = NoSync
    /\ backend \in {<<>>, Registered(<<>>, "a", StdioConfig)}
    /\ backendUp = TRUE
    /\ reachable = {"a"}
    /\ quiet = FALSE
    /\ afterSync = None
    /\ nSyncs = 0
    /\ nChanges = 0

NextMcp ==
    \/ SyncFetch
    \/ SyncConnect
    \/ SyncSave
    \/ LoadServers
    \/ \E id \in ServerIds : RemoteConnect(id, HttpConfig)
    \/ BackendAvailability
    \/ \E id \in ServerIds : ProviderAvailability(id)
    \/ \E id \in ServerIds : HandleConnect(id)
    \/ TimerFires
    \/ \E id \in ServerIds : HandleDisconnect(id)
    \/ \E id \in ServerIds, confirmed \in BOOLEAN : HandleRemove(id, confirmed)
    \/ \E form \in Forms : HandleAddServer(form)

SpecMcp == InitMcp /\ [][NextMcp]_vars

\* this step ends a sync run that nobody disturbed
SyncRunEnds == sync.pc = "connect" /\ sync'.pc = "idle" /\ quiet

\* C9: a sync run leaves the stored config of a provider as it was when the
\* provider is stored locally and the backend lists it with another config.
C9_LocalConfigKept ==
    [][SyncRunEnds
          => \A i \in 1..Len(sync.localServers) :
                LET localServer == sync.localServers[i]
                IN (\E j \in 1..Len(sync.backendServers) :
                       /\ sync.backendServers[j].id = localServer.id
                       /\ sync.backendServers[j].config # localServer.config)
                     => LocalConfig(getServers(lsMcp'), localServer.id)
                          = Some(localServer.config)
      ]_vars

\* C10: a sync run that follows a sync run, with no change by anyone else in
\* between, leaves the provider store (ids, configs, lastConnected) and the
\* statuses as the first run left them.
C10_SyncIdempotent ==
    [][(SyncRunEnds /\ afterSync # None)
          => /\ lsMcp' = afterSync[1].store
             /\ Statuses(backend') = afterSync[1].statuses
      ]_vars

\* this step is one run of the named handler of MCPServerManager
Handled(name) == nChanges' = nChanges + 1 /\ lastOp'.name = name

EventsOf(log, type) == SelectSeq(log, LAMBDA e : e.type = type)

\* C11: every run of handleDisconnect dispatches one mcpServerDisconnected
\* event for its server, whether the remote call succeeded or failed.
C11_DisconnectAlwaysEmits ==
    [][Handled("disconnect")
          => events' = Dispatched(events, "mcpServerDisconnected", lastOp'.id)
      ]_vars

\* C12: a confirmed handleRemove deletes the server from the local store and
\* dispatches mcpServerDisconnected, whether the remote removal succeeded or
\* failed, and does not show the failure of the remote removal as an error.
C12_RemoveAlwaysDeletes ==
    [][Handled("remove")
          => /\ LocalConfig(getServers(lsMcp'), lastOp'.id) = None
             /\ \A i \in 1..Len(getServers(lsMcp')) :
                   \E j \in 1..Len(getServers(lsMcp)) :
                      getServers(lsMcp')[i] = getServers(lsMcp)[j]
             /\ events' = Dispatched(events, "mcpServerDisconnected", lastOp'.id)
             /\ mcpError' # Some(FailedToRemoveText)
      ]_vars

\* server a was removed from a store that held a and b, the remote removal
\* having failed
C12_Witness ==
    /\ lastOp.name = "remove"
    /\ lastOp.id = "a"
    /\ ~lastOp.ok
    /\ getServers(lsMcp) = <<StoredB>>
    /\ events # <<>>
    /\ events[Len(events)] = [type |-> "mcpServerDisconnected", serverId |-> "a"]

MissesRequiredField(form) ==
    \/ form.type = "stdio" /\ form.command = ""
    \/ form.type = "http" /\ form.url = ""

\* C13: handleAddServer on a form with stdio transport and an empty command,
\* or http transport and an empty URL, shows a validation error, makes no
\* connect request and stores nothing.
C13_AddValidates ==
    [][(Handled("add") /\ MissesRequiredField(lastOp'.form))
          => /\ mcpError' \in {Some(IdRequiredText), Some(CommandRequiredText),
                              Some(UrlRequiredText)}
             /\ lsMcp' = lsMcp
             /\ backend' = backend
             /\ timers' = timers
             /\ events' = events
      ]_vars

\* a form without a command was rejected although its server could connect
C13_Witness ==
    /\ lastOp.name = "add"
    /\ lastOp.form = Form("b", "stdio", "", "", "")
    /\ lastOp.ok
    /\ mcpError = Some(CommandRequiredText)
    /\ LocalConfig(getServers(lsMcp), "b") = None
    /\ "b" \notin BackendIds(backend)

\* C14: handleConnect of a listed server whose connect succeeds stores the
\* config with lastConnected set and schedules one mcpServerConnected event;
\* when the connect fails or throws it shows an error, writes nothing and
\* schedules no event.  Each scheduled callback dispatches the event once.
C14_ConnectOutcome ==
    [][/\ (Handled("connect") /\ FindServer(servers, lastOp'.id) # None)
          => IF lastOp'.ok
             THEN /\ \E i \in 1..Len(getServers(lsMcp')) :
                        getServers(lsMcp')[i]
                          = ServerConfig(lastOp'.id,
                                         FindServer(servers, lastOp'.id)[1].config,
                                         Some(now))
                  /\ timers' = Append(timers, lastOp'.id)
                  /\ events' = events
             ELSE /\ mcpError' # None
                  /\ lsMcp' = lsMcp
                  /\ timers' = timers
                  /\ events' = events
       /\ (timers # <<>> /\ timers' = Tail(timers))
          => EventsOf(events', "mcpServerConnected")
               = Append(EventsOf(events, "mcpServerConnected"),
                        [type |-> "mcpServerConnected", serverId |-> Head(timers)])
      ]_vars

\* server a connected, was stored with the time of the connect, and its
\* event was dispatched
C14_Witness ==
    /\ lastOp.name = "connect"
    /\ lastOp.id = "a"
    /\ lastOp.ok
    /\ timers = <<>>
    /\ \E i \in 1..Len(getServers(lsMcp)) :
          getServers(lsMcp)[i] = ServerConfig("a", StdioConfig, Some(1))
    /\ EventsOf(events, "mcpServerConnected")
         = <<[type |-> "mcpServerConnected", serverId |-> "a"]>>

\* C15: when two providers have connected and nothing else has happened to
\* the providers, loadTools has run twice for them, once per
\* mcpServerConnected event.
C15_OneRefreshPerConnect ==
    (/\ Len(EventsOf(events, "mcpServerConnected")) = 2
     /\ EventsOf(events, "mcpServerDisconnected") = <<>>
     /\ timers = <<>>)
      => nLoadTools = 2

---------------------------------------------------------------------------
(* Storage calls on any stored content: storage.getChats, getChat,       *)
(* saveChat and deleteChat called directly, on a store that holds        *)
(* nothing, a text that does not parse, JSON that is no array, or        *)
(* InitChats chats.                                                        *)

StoredContents ==
    {MissingItem, UnparseableItem, NotListItem, Stringify(InitStoreList)}

CallStamps == {5, 61 + InitChats}

Outcome(op, threw, isList, chat) ==
    [op |-> op, threw |-> threw, isList |-> isList, chat |-> chat]

StorageCall ==
    /\ nSaves < MaxSaves
    /\ nSaves' = nSaves + 1
    /\ UNCHANGED <<everSaved, monotone, hookVars, turnVars, mcpVars, busVars, toolVars, playVars, tabVars,
                   voiceVars, lastOp>>

GetChatsCall ==
    /\ StorageCall
    /\ outcome' = Outcome("getChats", FALSE, ReadsList(lsChats), None)
    /\ UNCHANGED lsChats

GetChatCall(id) ==
    /\ StorageCall
    /\ outcome' = Outcome("getChat", getChatThrows(lsChats), ReadsList(lsChats), None)
    /\ UNCHANGED lsChats

SaveCall(id, stamp) ==
    /\ StorageCall
    /\ lsChats' = saveChat(lsChats, EmptyChat(id, stamp))
    /\ outcome' = Outcome("saveChat", FALSE, TRUE, Some(EmptyChat(id, stamp)))

DeleteCall(id) ==
    /\ StorageCall
    /\ lsChats' = deleteChat(lsChats, id)
    /\ outcome' = Outcome("deleteChat", FALSE, TRUE, None)

InitCalls ==
    /\ lsChats \in StoredContents
    /\ everSaved = <<>>
    /\ monotone = TRUE
    /\ nSaves = 0
    /\ HookIdle

NextCalls ==
    \/ GetChatsCall
    \/ \E id \in SaveIds : GetChatCall(id)
    \/ \E id \in SaveIds, stamp \in CallStamps : SaveCall(id, stamp)
    \/ \E id \in SaveIds : DeleteCall(id)

SpecCalls == InitCalls /\ [][NextCalls]_vars

Saved == outcome'.chat[1]

\* storage.getChat(id) after the step returns a chat equal to the given one
ReadsBack(id, chat) ==
    /\ ~getChatThrows(lsChats')
    /\ getChat(lsChats', id) = Some(chat)

NotOlder(item, chat) ==
    {i \in 1..Len(getChats(item)) :
        /\ getChats(item)[i].id # chat.id
        /\ getChats(item)[i].updatedAt >= chat.updatedAt}

C17_CorruptStoreReadsAsList ==
    outcome.op # "none" => ~outcome.threw /\ outcome.isList

---------------------------------------------------------------------------
(* Absent ids: the hook's addMessage and renameChat and the manager's     *)
(* handleConnect called with ids that may not be there, while a turn can  *)
(* be in flight and its chat deleted before the response arrives.         *)

AbsentMessages == {Message("assistant", <<"O","k">>, now)}

AbsentReplies ==
    { [kind |-> "response",
       response |-> Response(<<"H","i"," ","t","h","e","r","e">>, None, None),
       error |-> NoError],
      [kind |-> "axiosError", response |-> NoResponse,
       error |-> [kind |-> "request", text |-> None]] }

InitAbsent ==
    /\ lsChats \in {MissingItem, Stringify(<<SeedChat>>)}
    /\ everSaved = <<>>
    /\ monotone = TRUE
    /\ nSaves = 0
    /\ now = 1
    /\ nextChatId = 1
    /\ chats = getChats(lsChats)
    /\ currentChatId = MostRecentId(chats)
    /\ nCalls = 0
    /\ isLoading = FALSE
    /\ serverStatus = "online"
    /\ audioOutputEnabled = TRUE
    /\ toolCallingEnabled = TRUE
    /\ pc = "idle"
    /\ turn = NoTurn
    /\ request = None
    /\ reply = None
    /\ nTurns = 0
    /\ mode = "chat"
    /\ isRecording = FALSE
    /\ audioBlob = FALSE
    /\ stopping = FALSE
    /\ starting = FALSE
    /\ outcome = NoOutcome
    /\ events = <<>>
    /\ timers = <<>>
    /\ nLoadTools = 0
    /\ lastOp = NoOp
    /\ ToolsIdle
    /\ PlayIdle
    /\ storageEvents = 0
    /\ lsMcp = Stringify(<<StoredA>>)
    /\ servers = <<>>
    /\ mcpError = None
    /\ sync = NoSync
    /\ backend = Registered(<<>>, "a", StdioConfig)
    /\ backendUp = TRUE
    /\ reachable = {"a"}
    /\ quiet = FALSE
    /\ afterSync = None
    /\ nSyncs = 0
    /\ nChanges = 0

\* the seed chat's id and the id the first created chat gets
AbsentChatIds == {0, 1}

NextAbsent ==
    \/ \E id \in AbsentChatIds : Clicked(DeleteChat(id))
    \/ \E id \in AbsentChatIds, m \in AbsentMessages : Clicked(AddMessage(id, m))
    \/ \E id \in AbsentChatIds : Clicked(RenameChat(id, <<"R"," ">>))
    \/ HandleSubmit(<<" ","H","i"," ">>, {})
    \/ \E r \in AbsentReplies : BackendSettles(r)
    \/ HandleReply
    \/ LoadServers
    \/ \E id \in ServerIds : HandleConnect(id)
    \/ TimerFires

SpecAbsent == InitAbsent /\ [][NextAbsent]_vars

IsAbsent(id) == getChat(lsChats, id) = None

\* the chat store and the provider store, as stored and as on screen
StoresUnchanged ==
    UNCHANGED <<lsChats, chats, currentChatId, lsMcp, servers, mcpError,
                backend, events, timers>>

\* C18: a step of addMessage or renameChat with a chat id that is not stored,
\* a response handled for a turn whose chat is no longer stored, and a step of
\* handleConnect with an id that is not in the list, all end (none of them
\* throws) and leave the chat store and the provider store as they were
C18_AbsentIdsAreNoOps ==
    [][/\ \A id \in AbsentChatIds, m \in AbsentMessages :
            AddMessage(id, m) /\ IsAbsent(id) => StoresUnchanged
       /\ \A id \in AbsentChatIds :
            RenameChat(id, <<"R"," ">>) /\ IsAbsent(id) => StoresUnchanged
       /\ HandleReply /\ IsAbsent(turn.chatId) => StoresUnchanged
       /\ \A id \in ServerIds :
            HandleConnect(id) /\ FindServer(servers, id) = None
                => StoresUnchanged]_vars

\* handleConnect has run for an id the list does not hold, and a turn awaits
\* its response after its chat was deleted
C18_Witness ==
    /\ lastOp.name = "connect"
    /\ servers = <<>>
    /\ lsMcp = Stringify(<<StoredA>>)
    /\ pc = "awaitReply"
    /\ IsAbsent(turn.chatId)
    /\ lsChats = Stringify(<<>>)

---------------------------------------------------------------------------
(* Voice mode: the recorder, the voice auto-send effect and the           *)
(* send-with-media button of VoiceModeInput, beside the chat input.       *)

VoiceMessageText == <<"[","V","o","i","c","e"," ","m","e","s","s","a","g","e","]">>

\* MessageInput: disabled={disabled || isLoading}, and the guard of handleSubmit
ChatInputOpen == mode = "chat" /\ ~(serverStatus = "offline" \/ isLoading)

\* the record, stop and cancel buttons: disabled={disabled || isLoading}
RecordOpen == mode = "voice" /\ ~(serverStatus = "offline" \/ isLoading)

\* the send-with-media button: disabled={disabled || isLoading || isRecording}
SendWithMediaOpen ==
    mode = "voice" /\ ~(serverStatus = "offline" \/ isLoading \/ isRecording)

\* a condition that does not look at the busy flag
AutoSendDueWhileLoading == mode = "voice" /\ ~isRecording /\ audioBlob

\* the condition of the auto-send effect; its timer is cleared when it stops
\* holding
AutoSendDue == mode = "voice" /\ ~isRecording /\ audioBlob /\ ~isLoading

\* the mode toggle
SetMode(m) ==
    /\ mode' = m
    /\ audioBlob' = IF m = "voice" THEN FALSE ELSE audioBlob
    /\ mode' # mode \/ audioBlob' # audioBlob
    /\ UNCHANGED <<lsChats, ghostVars, hookVars, turnVars, mcpVars, busVars, toolVars, playVars, tabVars,
                   isRecording, stopping, starting, outcome, lastOp>>

\* startRecording up to its await of getUserMedia
StartRecording ==
    /\ RecordOpen
    /\ ~isRecording
    /\ ~starting
    /\ starting' = TRUE
    /\ UNCHANGED <<lsChats, ghostVars, hookVars, turnVars, mcpVars, busVars, toolVars, playVars, tabVars,
                   mode, isRecording, audioBlob, stopping, outcome, lastOp>>

\* getUserMedia resolved: the recorder starts
MicrophoneGranted ==
    /\ starting
    /\ starting' = FALSE
    /\ isRecording' = TRUE
    /\ UNCHANGED <<lsChats, ghostVars, hookVars, turnVars, mcpVars, busVars, toolVars, playVars, tabVars,
                   mode, audioBlob, stopping, outcome, lastOp>>

\* getUserMedia rejected
MicrophoneDenied ==
    /\ starting
    /\ starting' = FALSE
    /\ isRecording' = FALSE
    /\ UNCHANGED <<lsChats, ghostVars, hookVars, turnVars, mcpVars, busVars, toolVars, playVars, tabVars,
                   mode, audioBlob, stopping, outcome, lastOp>>

\* stopRecording
StopRecording ==
    /\ RecordOpen
    /\ isRecording
    /\ isRecording' = FALSE
    /\ stopping' = TRUE
    /\ UNCHANGED <<lsChats, ghostVars, hookVars, turnVars, mcpVars, busVars, toolVars, playVars, tabVars,
                   mode, audioBlob, starting, outcome, lastOp>>

\* mediaRecorder.onstop
RecorderStopped ==
    /\ stopping
    /\ stopping' = FALSE
    /\ audioBlob' = TRUE
    /\ UNCHANGED <<lsChats, ghostVars, hookVars, turnVars, mcpVars, busVars, toolVars, playVars, tabVars,
                   mode, isRecording, starting, outcome, lastOp>>

\* mediaRecorder.onerror
RecorderError ==
    /\ isRecording
    /\ isRecording' = FALSE
    /\ UNCHANGED <<lsChats, ghostVars, hookVars, turnVars, mcpVars, busVars, toolVars, playVars, tabVars,
                   mode, audioBlob, stopping, starting, outcome, lastOp>>

\* the cancel button shown while recording: clearRecording
ClearRecording ==
    /\ RecordOpen
    /\ isRecording
    /\ audioBlob
    /\ audioBlob' = FALSE
    /\ UNCHANGED <<lsChats, ghostVars, hookVars, turnVars, mcpVars, busVars, toolVars, playVars, tabVars,
                   mode, isRecording, stopping, starting, outcome, lastOp>>

HadAudio(tr) == \E f \in tr.files : f.kind = "audio"

\* handleVoiceSend from the conversions on, up to the await of sendMessage
VoiceSendFrom(item, list, tr) ==
    LET pick(kind) == IF \E f \in tr.files : f.kind = kind
                      THEN Some(convertFileToDataUrl(
                               (CHOOSE f \in tr.files : f.kind = kind).file))
                      ELSE None
        userMessage == [Message("user",
                                IF HadAudio(tr) THEN VoiceMessageText
                                ELSE MediaMessageText, now) EXCEPT
                           !.imageUrl = pick("image"),
                           !.videoUrl = pick("video")]
    IN /\ lsChats' = addMessage(item, tr.chatId, userMessage, now)
       /\ chats' = ChatsAfter(item, lsChats', tr.chatId, list)
       /\ serverStatus' = IF tr.wasOffline THEN "online" ELSE serverStatus
       /\ request' = Some(sendMessage(<<>>, tr.files, TRUE, None))
       /\ turn' = [tr EXCEPT !.userMessage = Some(userMessage)]
       /\ pc' = "voiceAwait"

\* handleVoiceSend up to its first await; pc = "idle" keeps the run to the one
\* turn the model follows, and is implied by the conditions its callers test
HandleVoiceSend(files) ==
    /\ audioBlob \/ files # {}
    /\ pc = "idle"
    /\ nTurns < MaxTurns
    /\ nTurns' = nTurns + 1
    /\ currentChat = None => nextChatId <= MaxNewChats
    /\ LET created == currentChat = None
           chatId == IF created THEN nextChatId ELSE currentChat[1].id
           item == IF created THEN saveChat(lsChats, EmptyChat(nextChatId, now))
                   ELSE lsChats
           list == IF created THEN getChats(item) ELSE chats
           tr == [NoTurn EXCEPT
                     !.chatId = chatId,
                     !.files = files \cup (IF audioBlob THEN {AudioFile} ELSE {}),
                     !.wasOffline = (serverStatus = "offline")]
       IN /\ currentChatId' = IF created THEN Some(nextChatId) ELSE currentChatId
          /\ nextChatId' = IF created THEN nextChatId + 1 ELSE nextChatId
          /\ isLoading' = TRUE
          /\ IF NeedsConversion(files)
             THEN /\ pc' = "voiceConverting"
                  /\ turn' = tr
                  /\ lsChats' = item
                  /\ chats' = list
                  /\ UNCHANGED <<serverStatus, request>>
             ELSE VoiceSendFrom(item, list, tr)
    /\ UNCHANGED <<now, nCalls, reply, audioOutputEnabled, toolCallingEnabled,
                   ghostVars, mcpVars, busVars, toolVars, playVars, tabVars, voiceVars, outcome, lastOp>>

\* the timer of the auto-send effect fires
AutoSend == AutoSendDue /\ HandleVoiceSend({})

\* VoiceModeInput.handleSendWithMedia
SendWithMedia(files) == SendWithMediaOpen /\ HandleVoiceSend(files)

\* the catch and finally blocks of handleVoiceSend
VoiceCatch(message) ==
    /\ serverStatus' = IF IsConnectionError(message) THEN "offline"
                       ELSE serverStatus
    /\ lsChats' = addMessage(lsChats, turn.chatId, ErrorMessage(message, now), now)
    /\ chats' = ChatsAfter(lsChats, lsChats', turn.chatId, chats)
    /\ audioBlob' = IF HadAudio(turn) THEN FALSE ELSE audioBlob
    /\ isLoading' = FALSE
    /\ pc' = "idle"
    /\ turn' = NoTurn
    /\ request' = None
    /\ reply' = None

VoiceRest ==
    UNCHANGED <<now, nextChatId, currentChatId, nCalls, audioOutputEnabled,
                toolCallingEnabled, nTurns, ghostVars, mcpVars, busVars, toolVars, playVars, tabVars,
                mode, isRecording, stopping, starting, outcome, lastOp>>

VoiceConvertDone ==
    /\ pc = "voiceConverting"
    /\ VoiceSendFrom(lsChats, chats, turn)
    /\ UNCHANGED <<isLoading, reply, audioBlob>>
    /\ VoiceRest

VoiceConvertFail ==
    /\ pc = "voiceConverting"
    /\ VoiceCatch(None)
    /\ VoiceRest

\* the upload call settles with r
VoiceBackendSettles(r) ==
    /\ pc = "voiceAwait"
    /\ reply = None
    /\ reply' = Some(r)
    /\ UNCHANGED <<lsChats, hookVars, isLoading, serverStatus, audioOutputEnabled,
                   toolCallingEnabled, pc, turn, request, nTurns, outsideTurn>>

\* handleVoiceSend resumes after the await of sendMessage
HandleVoiceReply ==
    /\ pc = "voiceAwait"
    /\ reply # None
    /\ LET r == reply[1]
       IN IF r.kind = "response" /\ r.response.choice # None
          THEN LET choice == r.response.choice[1]
                   assistantMsg == [Message("assistant", choice.content, now)
                                       EXCEPT !.audioData = choice.audio]
               IN /\ lsChats' = addMessage(lsChats, turn.chatId, assistantMsg, now)
                  /\ chats' = ChatsAfter(lsChats, lsChats', turn.chatId, chats)
                  /\ audioBlob' = FALSE
                  /\ isLoading' = FALSE
                  /\ pc' = "idle"
                  /\ turn' = NoTurn
                  /\ request' = None
                  /\ reply' = None
                  /\ UNCHANGED serverStatus
          ELSE VoiceCatch(CaughtMessage(r))
    /\ VoiceRest

VoiceReplies ==
    { [kind |-> "response",
       response |-> Response(<<"H","i"," ","t","h","e","r","e">>, AudioPayload, None),
       error |-> NoError],
      [kind |-> "axiosError", response |-> NoResponse,
       error |-> [kind |-> "request", text |-> None]],
      [kind |-> "axiosError", response |-> NoResponse,
       error |-> [kind |-> "response", text |-> None]] }

\* the container with a stored chat or none, online, or offline as an earlier
\* turn that could not reach the server has left it
InitVoice ==
    /\ lsChats \in {MissingItem, Stringify(<<SeedChat>>)}
    /\ serverStatus \in {"online", "offline"}
    /\ everSaved = <<>>
    /\ monotone = TRUE
    /\ nSaves = 0
    /\ now = 0
    /\ nextChatId = 1
    /\ chats = getChats(lsChats)
    /\ currentChatId = MostRecentId(chats)
    /\ nCalls = 0
    /\ ManagerIdle
    /\ mode = "chat"
    /\ isRecording = FALSE
    /\ audioBlob = FALSE
    /\ stopping = FALSE
    /\ starting = FALSE
    /\ outcome = NoOutcome
    /\ isLoading = FALSE
    /\ audioOutputEnabled = TRUE
    /\ toolCallingEnabled = TRUE
    /\ pc = "idle"
    /\ turn = NoTurn
    /\ request = None
    /\ reply = None
    /\ nTurns = 0

ChatSubmit == mode = "chat" /\ HandleSubmit(<<" ","H","i"," ">>, {})

Settles == \E r \in VoiceReplies : BackendSettles(r)

VoiceSettles == \E r \in VoiceReplies : VoiceBackendSettles(r)

SendsWithMedia == SendWithMedia({ImageFile})

NextVoice ==
    \/ \E m \in {"chat", "voice"} : SetMode(m)
    \/ ChatSubmit
    \/ Settles
    \/ HandleReply
    \/ StartRecording
    \/ MicrophoneGranted
    \/ MicrophoneDenied
    \/ StopRecording
    \/ RecorderStopped
    \/ RecorderError
    \/ ClearRecording
    \/ AutoSend
    \/ SendsWithMedia
    \/ VoiceConvertDone
    \/ VoiceConvertFail
    \/ VoiceSettles
    \/ HandleVoiceReply

SpecVoice == InitVoice /\ [][NextVoice]_vars

\* every pending completion runs, the auto-send timer fires when it stays due,
\* and the user sends whenever an input stays open
SpecVoiceFair ==
    /\ SpecVoice
    /\ WF_vars(Settles)
    /\ WF_vars(HandleReply)
    /\ WF_vars(MicrophoneGranted \/ MicrophoneDenied)
    /\ WF_vars(RecorderStopped)
    /\ WF_vars(AutoSend)
    /\ WF_vars(VoiceConvertDone \/ VoiceConvertFail)
    /\ WF_vars(VoiceSettles)
    /\ WF_vars(HandleVoiceReply)
    /\ WF_vars(ChatSubmit)
    /\ WF_vars(SendsWithMedia)

InFlight == pc # "idle"

\* C19: while a turn started by handleSend or handleVoiceSend has not finished,
\* the chat input, the voice auto-send and the send-with-media button are all
\* closed, and the busy flag is set exactly while a turn is in flight
C19_OneTurnInFlight ==
    /\ InFlight <=> isLoading
    /\ InFlight => ~ChatInputOpen /\ ~AutoSendDue /\ ~SendWithMediaOpen

\* a voice turn in flight with its recording still held, in voice mode
C19_Witness ==
    /\ pc = "voiceAwait"
    /\ mode = "voice"
    /\ audioBlob
    /\ ~isRecording
    /\ serverStatus = "online"

\* C20: once the indicator is offline and a turn is still to come, the indicator
\* returns to online
C20_OfflineNotAbsorbing ==
    (serverStatus = "offline" /\ nTurns < MaxTurns) ~> (serverStatus = "online")

---------------------------------------------------------------------------
(* Tool catalog: ChatContainer.loadTools, started on mount and by each of *)
(* the three window events, with any number of runs in flight at once.    *)

NoToolsText == <<"N","o"," ","t","o","o","l","s"," ","a","v","a","i","l","a","b","l","e">>
FailedToFetchToolsText == <<"F","a","i","l","e","d"," ","t","o"," ","f","e","t","c","h"," ","a","v","a","i","l","a","b","l","e"," ","t","o","o","l","s">>

\* what apiService.getAvailableTools gives: response.data with its tools (None
\* when the field is missing), or the Error it throws
ToolReplies ==
    { [kind |-> "ok", tools |-> Some(<<>>)],
      [kind |-> "ok", tools |-> Some(<<"get_weather">>)],
      [kind |-> "ok", tools |-> Some(<<"get_weather", "search">>)],
      [kind |-> "ok", tools |-> None],
      [kind |-> "error", tools |-> None] }

RefreshEvents == {"mount", "mcpServerConnected", "mcpServerDisconnected", "refreshTools"}

ToolsRest ==
    UNCHANGED <<lsChats, ghostVars, hookVars, turnVars, mcpVars, busVars,
                playVars, tabVars, voiceVars, outcome, lastOp>>

\* loadTools up to its await, run by the mount effect or a listener
LoadToolsStarts(event) ==
    /\ nRefresh < MaxRefresh
    /\ event = "mount" <=> nRefresh = 0
    /\ nRefresh' = nRefresh + 1
    /\ toolsLoading' = TRUE
    /\ toolsError' = None
    /\ loads' = Append(loads, [n |-> nRefresh + 1, reply |-> None])
    /\ UNCHANGED <<availableTools, toolsFrom>>
    /\ ToolsRest

\* the GET /v1/omni/tools of run loads[i] settles
ToolsFetchSettles(i, r) ==
    /\ i \in 1..Len(loads)
    /\ loads[i].reply = None
    /\ loads' = [loads EXCEPT ![i].reply = Some(r)]
    /\ UNCHANGED <<availableTools, toolsLoading, toolsError, nRefresh, toolsFrom>>
    /\ ToolsRest

Without(seq, i) == SubSeq(seq, 1, i - 1) \o SubSeq(seq, i + 1, Len(seq))

\* toolsError after loadTools has handled r
ToolsErrorAfter(r) ==
    IF r.kind = "error" THEN Some(FailedToFetchToolsText)
    ELSE IF r.tools = None \/ Len(r.tools[1]) = 0 THEN Some(NoToolsText)
    ELSE None

\* loadTools resumes after its await: the try or the catch, then finally
LoadToolsResumes(i) ==
    /\ i \in 1..Len(loads)
    /\ loads[i].reply # None
    /\ LET r == loads[i].reply[1]
       IN /\ availableTools' = IF r.kind = "ok" /\ r.tools # None
                               THEN r.tools[1] ELSE <<>>
          /\ toolsError' = ToolsErrorAfter(r)
    /\ toolsLoading' = FALSE
    /\ toolsFrom' = loads[i].n
    /\ loads' = Without(loads, i)
    /\ UNCHANGED nRefresh
    /\ ToolsRest

InitTools ==
    /\ lsChats = MissingItem
    /\ everSaved = <<>>
    /\ monotone = TRUE
    /\ nSaves = 0
    /\ HookIdle

NextTools ==
    \/ \E event \in RefreshEvents : LoadToolsStarts(event)
    \/ \E i \in 1..MaxRefresh, r \in ToolReplies : ToolsFetchSettles(i, r)
    \/ \E i \in 1..MaxRefresh : LoadToolsResumes(i)

SpecTools == InitTools /\ [][NextTools]_vars

\* C21: when a run of loadTools ends on a successful fetch, the catalog is not
\* in the error state, also when the fetch returned no tools
C21_EmptyIsNotAnError ==
    [][\A i \in 1..MaxRefresh :
          (LoadToolsResumes(i) /\ loads[i].reply[1].kind = "ok")
              => toolsError' = None]_vars

\* C28: once no refresh is in flight the cached list is that of the most
\* recently started refresh, and the loading flag is set while one is in flight
C28_LatestRefreshWins ==
    /\ (loads = <<>> /\ nRefresh > 0) => toolsFrom = nRefresh
    /\ loads # <<>> => toolsLoading

---------------------------------------------------------------------------
(* Two browsing contexts on one localStorage: this context's hook, and    *)
(* another context running the same hook code on the shared store. The    *)
(* other context's writes reach this one as storage events.               *)

outsideTabs == <<ghostVars, turnVars, mcpVars, busVars, toolVars, playVars,
                 voiceVars, outcome, lastOp>>

\* the storage event a write of another context queues here
Queued(item, itemAfter) ==
    storageEvents' = IF itemAfter # item THEN storageEvents + 1 ELSE storageEvents

\* handleSetCurrentChatId
SetCurrentChatId(chatId) ==
    /\ currentChatId' = IF getChat(lsChats, chatId) # None THEN Some(chatId)
                        ELSE currentChatId
    /\ UNCHANGED <<lsChats, outsideHook, now, nextChatId, chats>>

\* handleStorageChange
HandleStorageChange ==
    /\ storageEvents > 0
    /\ storageEvents' = storageEvents - 1
    /\ chats' = getChats(lsChats)
    /\ currentChatId' =
          IF /\ currentChatId # None
             /\ ~\E i \in 1..Len(chats') : chats'[i].id = currentChatId[1]
          THEN MostRecentId(chats')
          ELSE currentChatId
    /\ UNCHANGED <<lsChats, outsideTabs, now, nextChatId, nCalls>>

\* createNewChat in the other context
OtherNewChat ==
    /\ nextChatId <= MaxNewChats
    /\ lsChats' = saveChat(lsChats, EmptyChat(nextChatId, now))
    /\ nextChatId' = nextChatId + 1
    /\ Queued(lsChats, lsChats')
    /\ UNCHANGED <<outsideTabs, now, chats, currentChatId>>

\* addMessage in the other context
OtherAddMessage(chatId, message) ==
    /\ lsChats' = addMessage(lsChats, chatId, message, now)
    /\ Queued(lsChats, lsChats')
    /\ UNCHANGED <<outsideTabs, now, nextChatId, chats, currentChatId>>

\* deleteChat in the other context
OtherDeleteChat(chatId) ==
    /\ lsChats' = deleteChat(lsChats, chatId)
    /\ Queued(lsChats, lsChats')
    /\ UNCHANGED <<outsideTabs, now, nextChatId, chats, currentChatId>>

TabMessages ==
    { Message("user", <<"H","i">>, now), Message("assistant", <<"O","k">>, now) }

InitTabs ==
    /\ lsChats = MissingItem
    /\ everSaved = <<>>
    /\ monotone = TRUE
    /\ nSaves = 0
    /\ HookIdle

NextTabs ==
    \/ Called(NewChat)
    \/ \E id \in ChatIds, m \in TabMessages : Called(AddMessage(id, m))
    \/ \E id \in ChatIds : Called(RenameChat(id, <<"R">>))
    \/ \E id \in ChatIds : Called(DeleteChat(id))
    \/ \E id \in ChatIds : Called(SetCurrentChatId(id))
    \/ Called(OtherNewChat)
    \/ \E id \in ChatIds, m \in TabMessages : Called(OtherAddMessage(id, m))
    \/ \E id \in ChatIds : Called(OtherDeleteChat(id))
    \/ HandleStorageChange

SpecTabs == InitTabs /\ [][NextTabs]_vars

\* C22: when the current id is set and storage holds a chat under it, the
\* resolved current chat is that chat, also when the in-memory list lacks it
C22_ResolvesFromStorage ==
    (currentChatId # None /\ getChat(lsChats, currentChatId[1]) # None)
        => (currentChat # None /\ currentChat[1].id = currentChatId[1])

IsPrefix(s, t) == Len(s) <= Len(t) /\ SubSeq(t, 1, Len(s)) = s

\* the chat under id in the in-memory list
Listed(list, id) ==
    IF \E i \in 1..Len(list) : list[i].id = id
    THEN Some(list[FindIndex(list, id)]) ELSE None

\* chat after continues chat before: same createdAt, messages only appended
Continues(before, after) ==
    (before # None /\ after # None)
        => /\ after[1].id = before[1].id
           /\ after[1].createdAt = before[1].createdAt
           /\ IsPrefix(before[1].messages, after[1].messages)

\* C24: over every step of either context, a chat that exists before and after
\* keeps its id and createdAt and its earlier messages as a prefix of the later
\* ones, in storage and in the in-memory list
C24_MessagesAppendOnly ==
    [][\A id \in ChatIds :
          /\ Continues(getChat(lsChats, id), getChat(lsChats', id))
          /\ Continues(Listed(chats, id), Listed(chats', id))]_vars

\* a chat was appended to twice and then renamed
C24_Witness ==
    \E i \in 1..Len(getChats(lsChats)) :
        /\ Len(getChats(lsChats)[i].messages) = 2
        /\ getChats(lsChats)[i].title = <<"R">>

---------------------------------------------------------------------------
(* A turn of this context while another context appends to the same chat. *)

HelloText == <<"H","e","l","l","o">>
HiThereText == <<"H","i"," ","t","h","e","r","e">>

\* what the other context appends
OtherMessage == Message("user", <<"O","t","h","e","r">>, now)

SharedReplies ==
    {[kind |-> "response", response |-> r, error |-> NoError] :
        r \in { Response(HiThereText, None, None),
                Response(HiThereText, AudioPayload, Some(<<>>)),
                Response(<<"I","t","'","s"," ","7","2","F">>, None,
                         Some(ToolConversation)) }}
      \cup {[kind |-> "axiosError", response |-> NoResponse,
             error |-> [kind |-> "request", text |-> None]]}

NextShared ==
    \/ HandleSubmit(HelloText, {})
    \/ \E r \in SharedReplies : BackendSettles(r)
    \/ HandleReply
    \/ \E id \in TurnChatIds : Called(OtherAddMessage(id, OtherMessage))
    \/ \E id \in TurnChatIds : Called(OtherDeleteChat(id))
    \/ HandleStorageChange

SpecShared == InitTurn /\ [][NextShared]_vars

\* the assistant message handleSend builds from the first choice
FallbackMessage(choice, t) ==
    [Message("assistant", choice.content, t) EXCEPT
        !.audioData = choice.audio,
        !.toolCalls = choice.tool_calls]

\* C23: a successful response whose conversation_messages is absent or empty
\* appends exactly one assistant message carrying the top-level content
C23_FallbackAppendsOne ==
    [][(Resumes /\ Succeeded /\ ReplyConversation = <<>> /\ TurnChat # None)
          => /\ OnlyAppended
             /\ Gained = <<FallbackMessage(reply[1].response.choice[1], now)>>]_vars

\* "Hello" sent in a new chat and answered "Hi there": the chat holds the two
\* messages and is titled "Hello"
C23_Witness ==
    /\ pc = "idle"
    /\ \E i \in 1..Len(getChats(lsChats)) :
          LET chat == getChats(lsChats)[i]
          IN /\ chat.title = HelloText
             /\ Len(chat.messages) = 2
             /\ chat.messages[1].role = "user"
             /\ chat.messages[1].content = HelloText
             /\ chat.messages[2].role = "assistant"
             /\ chat.messages[2].content = HiThereText

\* what the resuming handleSend appends: the reply's messages or the error
ReplyAppends ==
    IF Succeeded THEN SuccessAppends(reply[1].response, now)
    ELSE <<ErrorMessage(CaughtMessage(reply[1]), now)>>

\* this step is handleSend appending the user message
AppendsUser == pc # "awaitReply" /\ pc' = "awaitReply"

\* C25: each append of a turn extends the chat as stored at that moment, so a
\* message another context appended in between is kept
C25_AppendsToStoredCopy ==
    [][/\ (AppendsUser /\ getChat(lsChats, turn'.chatId) # None)
            => /\ getChat(lsChats', turn'.chatId) # None
               /\ getChat(lsChats', turn'.chatId)[1].messages
                    = Append(getChat(lsChats, turn'.chatId)[1].messages,
                             turn'.userMessage[1])
       /\ (Resumes /\ TurnChat # None)
            => /\ TurnChatAfter # None
               /\ TurnChatAfter[1].messages = TurnChat[1].messages \o ReplyAppends]_vars

\* the turn's user message, the other context's message and the assistant's
\* reply, in that order, at the end of the chat
C25_Witness ==
    /\ pc = "idle"
    /\ \E i \in 1..Len(getChats(lsChats)) :
          LET messages == getChats(lsChats)[i].messages
              n == Len(messages)
          IN /\ n >= 3
             /\ messages[n - 2].content = HelloText
             /\ messages[n - 1] = OtherMessage
             /\ messages[n].role = "assistant"
             /\ messages[n].content = HiThereText

---------------------------------------------------------------------------

\* the messages of the chat before the turn in flight
PriorMessages == IF turn.history = None THEN <<>> ELSE turn.history[1]

FullHistoryPath == "/v1/omni/chat/completions"

\* C26: on the full-history path the outbound list is the prior messages in
\* order followed by the new user turn, exactly once, as its last element
C26_UserTurnOnce ==
    (pc = "awaitReply" /\ request[1].path = FullHistoryPath)
        => LET out == request[1].messages
           IN /\ Len(out) = Len(PriorMessages) + 1
              /\ \A i \in 1..Len(PriorMessages) :
                    out[i] = HistoryMessage(PriorMessages[i])
              /\ out[Len(out)].role = "user"

---------------------------------------------------------------------------

\* C27: while a confirmed handleRemove of a server is the last change made
\* beside the sync runs, so that only reconciliation and reloads have run
\* since, the server is absent from the persisted provider store
C27_RemovedStaysAbsent ==
    lastOp.name = "remove"
        => LocalConfig(getServers(lsMcp), lastOp.id) = None

---------------------------------------------------------------------------
(* Auto-play: the effect of ChatContainer on [mode, currentChat?.messages] *)
(* runs after the render that changed either, before the next event.       *)

\* the last message of the displayed chat
LastMessage ==
    IF currentChat = None \/ currentChat[1].messages = <<>> THEN None
    ELSE Some(currentChat[1].messages[Len(currentChat[1].messages)])

\* `${lastMessage.timestamp}-${lastMessage.role}`
MessageId(msg) == <<msg.timestamp, msg.role>>

\* the condition under which the effect plays
AutoPlayDue ==
    /\ mode = "voice"
    /\ LastMessage # None
    /\ LastMessage[1].role = "assistant"
    /\ LastMessage[1].audioData # None
    /\ lastPlayedMessageId # Some(MessageId(LastMessage[1]))

\* the effect playing the last message
AutoPlay ==
    /\ AutoPlayDue
    /\ Len(played) < MaxPlays
    /\ lastPlayedMessageId' = Some(MessageId(LastMessage[1]))
    /\ played' = Append(played, [chatId |-> currentChat[1].id,
                                 index |-> Len(currentChat[1].messages)])
    /\ UNCHANGED <<lsChats, ghostVars, hookVars, turnVars, mcpVars, busVars,
                   toolVars, tabVars, voiceVars, outcome, lastOp>>

\* an event handled once the effects of the last render have run
AfterEffects(op) == ~AutoPlayDue /\ op

NextPlay ==
    \/ AutoPlay
    \/ \E m \in {"chat", "voice"} : AfterEffects(SetMode(m))
    \/ AfterEffects(mode = "chat" /\ HandleSubmit(HelloText, {}))
    \/ AfterEffects(BackendTakesTime)
    \/ \E r \in SharedReplies : AfterEffects(BackendSettles(r))
    \/ AfterEffects(HandleReply)
    \/ AfterEffects(Called(NewChat))
    \/ \E id \in TurnChatIds : AfterEffects(Called(SetCurrentChatId(id)))

SpecPlay == InitTurn /\ [][NextPlay]_vars

\* the message was in the store when the page was loaded
StoredAtLoad(entry) ==
    entry.chatId = SeedChat.id /\ entry.index <= Len(SeedChat.messages)

\* C29: every message handed to the player was appended while the page was
\* open, and no message is handed to the player twice
C29_PlaysOnlyNew ==
    \A i \in 1..Len(played) :
        /\ ~StoredAtLoad(played[i])
        /\ \A j \in 1..(i - 1) : played[j] # played[i]

---------------------------------------------------------------------------
(* Turns of both kinds, typed or sent with media from the voice input,     *)
(* while chats are deleted from the sidebar; every pending completion is   *)
(* eventually run.                                                         *)

DeletesChat == \E id \in TurnChatIds : Clicked(DeleteChat(id))

NextEnds ==
    \/ \E m \in {"chat", "voice"} : SetMode(m)
    \/ ChatSubmit
    \/ Settles
    \/ HandleReply
    \/ SendsWithMedia
    \/ VoiceConvertDone
    \/ VoiceConvertFail
    \/ VoiceSettles
    \/ HandleVoiceReply
    \/ DeletesChat

SpecEnds ==
    /\ InitVoice
    /\ [][NextEnds]_vars
    /\ WF_vars(Settles)
    /\ WF_vars(HandleReply)
    /\ WF_vars(VoiceConvertDone \/ VoiceConvertFail)
    /\ WF_vars(VoiceSettles)
    /\ WF_vars(HandleVoiceReply)

\* C30: once handleSend or handleVoiceSend has set isLoading, isLoading becomes
\* false again, whether the call succeeds, fails, or the chat is gone
C30_TurnEnds == isLoading ~> ~isLoading

\* a turn has ended with the busy flag cleared and its chat deleted
C30_Witness ==
    /\ nTurns >= 1
    /\ nCalls >= 1
    /\ pc = "idle"
    /\ ~isLoading
    /\ getChats(lsChats) = <<>>

===========================================================================
